---- MODULE Spec2Model ----
(***************************************************************************)
(* A model of publint's lint pass (packages/publint/src/shared/core.js     *)
(* and utils.js): the task coordinator core(), the promise queue, the      *)
(* condition tree resolver crawlExportsOrImports, the format classifier    *)
(* and the diagnostics collection.                                         *)
(*                                                                         *)
(* Strings are TLA+ strings (TLC evaluates Len, \o and SubSeq on them).    *)
(* A JSON value is a tagged record: JStr, JNum, JBool, JNull, JUndef,      *)
(* JArr (a sequence of values) and JMap (a sequence of [k, v] entries in   *)
(* declared key order, which is Object.keys order for keys that are not    *)
(* integer-like).                                                          *)
(***************************************************************************)
EXTENDS Naturals, Sequences, FiniteSets, TLC

VARIABLES
  pkg,        \* the parsed manifest at the package root (rootPkg), a JMap
  level,      \* option level: "suggestion" | "warning" | "error"
  strict,     \* option strict
  corePc,     \* position of core(): "start" | "waiting" | "returned" | "rejected"
  messages,   \* the messages array of the running core()
  queue,      \* promiseQueue: the tasks pushed, each with its position
  returned,   \* what core() handed to its caller
  emitted,    \* every messages.push of the run, as pushed (before strict escalation)
  run,        \* which invocation of core() by the caller this is
  firstResult,\* the caller's copy of the first invocation's outcome
  vfs,        \* the file tree behind the Vfs port: a sequence of files
  packed,     \* option _packedFiles: [given, files]
  root        \* the directory the caller placed the package in

vars == <<pkg, level, strict, corePc, messages, queue, returned, emitted, run,
          firstResult, vfs, packed, root>>

-----------------------------------------------------------------------------
(* Bounds of the model. *)

MaxKeys == 3     \* keys per condition map drawn for the structural crawl
MaxRuns == 2     \* invocations of core() on the same package

-----------------------------------------------------------------------------
(* String helpers: String.prototype methods used by the source. *)

Char(s, i) == SubSeq(s, i, i)

StartsWith(s, p) == Len(s) >= Len(p) /\ SubSeq(s, 1, Len(p)) = p

EndsWith(s, p) == Len(s) >= Len(p) /\ SubSeq(s, Len(s) - Len(p) + 1, Len(s)) = p

MatchAt(s, i, p) == i >= 1 /\ i + Len(p) - 1 <= Len(s) /\ SubSeq(s, i, i + Len(p) - 1) = p

Includes(s, p) == \E i \in 1..(Len(s) + 1) : MatchAt(s, i, p)

\* the number of leading '/' characters of s
RECURSIVE LeadingSlashes(_)
LeadingSlashes(s) ==
  IF Len(s) > 0 /\ Char(s, 1) = "/" THEN 1 + LeadingSlashes(SubSeq(s, 2, Len(s))) ELSE 0

\* s.replace(/^[\/]+/, '')
StripLeadingSlashes(s) == SubSeq(s, LeadingSlashes(s) + 1, Len(s))

\* '' + key for an array index (0-based)
IndexStr(i) == Char("0123456789", i + 1)

SeqIncludes(seq, x) == \E i \in DOMAIN seq : seq[i] = x

Last(seq) == seq[Len(seq)]

-----------------------------------------------------------------------------
(* JSON values. *)

JStr(s)  == [t |-> "str", s |-> s]
JNum(n)  == [t |-> "num", n |-> n]
JBool(b) == [t |-> "bool", b |-> b]
JNull    == [t |-> "null"]
JUndef   == [t |-> "undef"]
JArr(e)  == [t |-> "arr", e |-> e]
JMap(e)  == [t |-> "map", e |-> e]
KV(k, v) == [k |-> k, v |-> v]

\* JavaScript truthiness
Truthy(v) ==
  CASE v.t = "str"  -> v.s # ""
    [] v.t = "num"  -> v.n # 0
    [] v.t = "bool" -> v.b
    [] v.t \in {"null", "undef"} -> FALSE
    [] OTHER -> TRUE

\* typeof v
TypeOf(v) ==
  CASE v.t = "str"  -> "string"
    [] v.t = "num"  -> "number"
    [] v.t = "bool" -> "boolean"
    [] v.t = "undef" -> "undefined"
    [] OTHER -> "object"

\* Object.keys(v) of an object, an array or a scalar
Keys(v) ==
  CASE v.t = "map" -> [i \in 1..Len(v.e) |-> v.e[i].k]
    [] v.t = "arr" -> [i \in 1..Len(v.e) |-> IndexStr(i - 1)]
    [] OTHER -> <<>>

\* v[k] where v is not null or undefined
Get(v, k) ==
  CASE v.t = "map" ->
         IF \E i \in DOMAIN v.e : v.e[i].k = k
         THEN v.e[CHOOSE i \in DOMAIN v.e : v.e[i].k = k].v
         ELSE JUndef
    [] v.t = "arr" ->
         IF \E i \in DOMAIN v.e : IndexStr(i - 1) = k
         THEN v.e[CHOOSE i \in DOMAIN v.e : IndexStr(i - 1) = k]
         ELSE JUndef
    [] OTHER -> JUndef

\* k in v, for an object or an array
HasKey(v, k) == SeqIncludes(Keys(v), k)

\* keys.indexOf(k), 0-based, -1 left out: used only when k is a key
IndexOf(keys, k) == (CHOOSE i \in DOMAIN keys : keys[i] = k) - 1

-----------------------------------------------------------------------------
(* utils.js: path predicates and object walks. *)

\* isFilePathRawTs
isFilePathRawTs(filePath) ==
  (EndsWith(filePath, ".ts") /\ ~EndsWith(filePath, ".d.ts")) \/ EndsWith(filePath, ".tsx")

\* isRelativePath
isRelativePath(filePath) ==
  IF Len(filePath) > 0 /\ Char(filePath, 1) = "." THEN TRUE
  ELSE ~(Len(filePath) > 0 /\ Char(filePath, 1) = "/") /\ ~Includes(filePath, ":")

\* isAbsolutePath
isAbsolutePath(filePath) ==
  \/ (Len(filePath) > 0 /\ Char(filePath, 1) = "/")
  \/ (Len(filePath) > 1 /\ Char(filePath, 2) = ":"
        /\ Includes("abcdefghijklmnopqrstuvwxyzABCDEFGHIJKLMNOPQRSTUVWXYZ", Char(filePath, 1)))

\* objectHasKeyNested: for..in over an object or an array; null iterates nothing
RECURSIVE objectHasKeyNested(_, _)
objectHasKeyNested(obj, key) ==
  \E i \in DOMAIN Keys(obj) :
    \/ Keys(obj)[i] = key
    \/ LET v == Get(obj, Keys(obj)[i])
       IN  TypeOf(v) = "object" /\ objectHasKeyNested(v, key)

\* objectHasValueNested(obj, isFilePathRawTs)
RECURSIVE objectHasRawTsNested(_)
objectHasRawTsNested(obj) ==
  \E i \in DOMAIN Keys(obj) :
    LET v == Get(obj, Keys(obj)[i])
    IN  \/ (v.t = "str" /\ isFilePathRawTs(v.s))
        \/ (TypeOf(v) = "object" /\ objectHasRawTsNested(v))

\* getPkgPathValue: v = v[p] along the path; reading a property of null or
\* undefined throws a TypeError
RECURSIVE getPkgPathValue(_, _)
getPkgPathValue(v, path) ==
  IF path = <<>> THEN [threw |-> FALSE, v |-> v]
  ELSE IF v.t \in {"null", "undef"} THEN [threw |-> TRUE, v |-> JUndef]
  ELSE getPkgPathValue(Get(v, Head(path)), Tail(path))

\* getPublishedField: [value, path]
getPublishedField(pkgJson, field) ==
  LET pc == Get(pkgJson, "publishConfig")
  IN  IF pc.t \notin {"null", "undef"} /\ Truthy(Get(pc, field))
      THEN [value |-> Get(pc, field), path |-> <<"publishConfig", field>>]
      ELSE [value |-> Get(pkgJson, field), path |-> <<field>>]

-----------------------------------------------------------------------------
(* Diagnostics. *)

Msg(code, type, path, args) == [code |-> code, type |-> type, path |-> path, args |-> args]

NoArgs == <<>>

\* a push that drops a diagnostic repeating the code of the last one
PushDroppingRepeat(msgs, m) ==
  IF msgs # <<>> /\ Last(msgs).code = m.code THEN msgs ELSE Append(msgs, m)

\* messages.push(m)
Push(msgs, m) == Append(msgs, m)

-----------------------------------------------------------------------------
(* crawlExportsOrImports: the checks made at one ConditionMap level. *)

\* the test of line 904 alone: `types` is present and is not the first key
TypesNotFirst(exportsValue, isImports) ==
  ~isImports /\ HasKey(exportsValue, "types") /\ Keys(exportsValue)[1] # "types"

\* lines 904-947: does EXPORTS_TYPES_SHOULD_BE_FIRST fire for this map
TypesShouldBeFirst(exportsValue, isImports) ==
  LET exportsKeys == Keys(exportsValue)
      typesAt == IndexOf(exportsKeys, "types") + 1
      \* the preceding keys that pass the filter of lines 914-927
      kept(i) ==
        LET key == exportsKeys[i]
            value == Get(exportsValue, key)
        IN  /\ ~StartsWith(key, "types")
            /\ ~(value.t = "str" /\ isFilePathRawTs(value.s))
            /\ ~(TypeOf(value) = "object" /\ objectHasRawTsNested(value))
      precedingKeys == {i \in 1..(typesAt - 1) : kept(i)}
      isPrecededByNestedTypesCondition ==
        \E i \in precedingKeys :
          LET value == Get(exportsValue, exportsKeys[i])
          IN  TypeOf(value) = "object" /\ objectHasKeyNested(value, "types")
  IN  /\ ~isImports
      /\ HasKey(exportsValue, "types")
      /\ exportsKeys[1] # "types"
      /\ precedingKeys # {}
      /\ ~isPrecededByNestedTypesCondition

\* `module` and `require` at the same level, whatever their order
ModuleAndRequire(exportsValue) ==
  HasKey(exportsValue, "module") /\ HasKey(exportsValue, "require")

\* lines 959-963
ModuleAfterRequire(exportsValue) ==
  /\ HasKey(exportsValue, "module")
  /\ HasKey(exportsValue, "require")
  /\ IndexOf(Keys(exportsValue), "module") > IndexOf(Keys(exportsValue), "require")

\* a `default` key at this level, whatever its place
DefaultPresent(exportsValue) == HasKey(exportsValue, "default")

\* lines 975-978
DefaultNotLast(exportsValue) ==
  /\ HasKey(exportsValue, "default")
  /\ Last(Keys(exportsValue)) # "default"

\* any map of an imports context
InImportsContext(currentPath, isImports) == isImports

\* lines 990-991
IsCurrentPathImports(currentPath, isImports) ==
  isImports /\ Last(currentPath) = "imports"

\* line 1003
SuggestKey(key) == "#" \o StripLeadingSlashes(key)

\* a key loop that starts as if no `node` key had been seen above it
StartsBeforeNode(isAfterNodeCondition) == FALSE

\* line 996: the flag a map starts its key loop with
LoopStartAfterNode(isAfterNodeCondition) == isAfterNodeCondition

\* a flag no key changes
KeepsFlag(isKeyAfterNodeCondition, key) == isKeyAfterNodeCondition

\* lines 1016-1018: the flag after the key has been crawled
NextAfterNode(isKeyAfterNodeCondition, key) == isKeyAfterNodeCondition \/ key = "node"

\* the diagnostics of lines 903-987, in the order they are pushed
MapMsgs(exportsValue, currentPath, isImports) ==
  (IF TypesShouldBeFirst(exportsValue, isImports)
   THEN <<Msg("EXPORTS_TYPES_SHOULD_BE_FIRST", "error", Append(currentPath, "types"), NoArgs)>>
   ELSE <<>>)
  \o
  (IF ModuleAfterRequire(exportsValue)
   THEN <<Msg(IF isImports THEN "IMPORTS_MODULE_SHOULD_PRECEDE_REQUIRE"
                           ELSE "EXPORTS_MODULE_SHOULD_PRECEDE_REQUIRE",
              "error", Append(currentPath, "module"), NoArgs)>>
   ELSE <<>>)
  \o
  (IF DefaultNotLast(exportsValue)
   THEN <<Msg(IF isImports THEN "IMPORTS_DEFAULT_SHOULD_BE_LAST"
                           ELSE "EXPORTS_DEFAULT_SHOULD_BE_LAST",
              "error", Append(currentPath, "default"), NoArgs)>>
   ELSE <<>>)

-----------------------------------------------------------------------------
(* crawlExportsOrImports on a Leaf: the task pushed at line 695 runs up to    *)
(* its first await (line 741) while it is being pushed.                       *)

\* the value left as the manifest has it
KeepSubpath(exportsValue) == exportsValue

\* lines 705-725: the value after the trailing-slash rewrite
RewriteSubpath(exportsValue) ==
  IF EndsWith(exportsValue, "/") THEN exportsValue \o "*" ELSE exportsValue

\* lines 706-708
ExpectPath(currentPath) ==
  [i \in 1..Len(currentPath) |->
     IF EndsWith(currentPath[i], "/") THEN currentPath[i] \o "*" ELSE currentPath[i]]

\* the value suggested as it is
SuggestUnchanged(exportsValue) == exportsValue

\* line 732
SuggestValue(exportsValue) == "./" \o StripLeadingSlashes(exportsValue)

\* A leaf task: pc "files" awaits getExportsFiles, "wait" awaits pq.wait(),
\* "done" is a fulfilled promise and "failed" a rejected one. sub is the
\* nested promise queue of line 783.
LeafTask(pc, exportsValue, currentPath, isImports, isAfterNodeCondition) ==
  [kind |-> "leaf", pc |-> pc, value |-> exportsValue, path |-> currentPath,
   isImports |-> isImports, after |-> isAfterNodeCondition, sub |-> <<>>]

\* lines 696-741: [msgs, task]
LeafStart(exportsValue, currentPath, isImports, isAfterNodeCondition) ==
  IF isImports /\ ~StartsWith(exportsValue, ".")
  THEN [msgs |-> <<>>,
        task |-> LeafTask("done", exportsValue, currentPath, isImports, isAfterNodeCondition)]
  ELSE
    LET slash == EndsWith(exportsValue, "/")
        found == getPkgPathValue(pkg, ExpectPath(currentPath))
        value == RewriteSubpath(exportsValue)
        deprecated ==
          IF slash
          THEN <<Msg(IF isImports THEN "IMPORTS_GLOB_NO_DEPRECATED_SUBPATH_MAPPING"
                                  ELSE "EXPORTS_GLOB_NO_DEPRECATED_SUBPATH_MAPPING",
                     IF Truthy(found.v) THEN "suggestion" ELSE "error",
                     currentPath,
                     [expectPath |-> ExpectPath(currentPath), expectValue |-> value])>>
          ELSE <<>>
        invalid ==
          IF ~StartsWith(value, "./")
          THEN <<Msg(IF isImports THEN "IMPORTS_VALUE_INVALID" ELSE "EXPORTS_VALUE_INVALID",
                     "error", currentPath, [suggestValue |-> SuggestValue(value)])>>
          ELSE <<>>
    IN  IF slash /\ found.threw
        THEN [msgs |-> <<>>,
              task |-> LeafTask("failed", exportsValue, currentPath, isImports,
                                isAfterNodeCondition)]
        ELSE [msgs |-> deprecated \o invalid,
              task |-> LeafTask("files", value, currentPath, isImports, isAfterNodeCondition)]

-----------------------------------------------------------------------------
(* crawlExportsOrImports, lines 688-1021. acc is what the synchronous crawl    *)
(* has done so far: the messages pushed, the tasks pushed, and whether a       *)
(* TypeError was thrown (which ends core() there).                             *)

\* the crawl after a leaf: its task is pushed and has run up to its first await
AddLeaf(acc, leaf) ==
  [acc EXCEPT !.msgs = acc.msgs \o leaf.msgs, !.tasks = Append(acc.tasks, leaf.task)]

RECURSIVE crawlExportsOrImports(_, _, _, _, _)
RECURSIVE CrawlKeys(_, _, _, _, _, _)
RECURSIVE CrawlArray(_, _, _, _, _, _)

crawlExportsOrImports(exportsValue, currentPath, isImports, isAfterNodeCondition, acc) ==
  IF acc.threw THEN acc
  ELSE IF exportsValue.t = "str" THEN
    AddLeaf(acc, LeafStart(exportsValue.s, currentPath, isImports, isAfterNodeCondition))
  ELSE IF exportsValue.t = "arr" THEN
    CrawlArray(exportsValue, 1, currentPath, isImports, isAfterNodeCondition,
               [acc EXCEPT !.msgs = Push(acc.msgs,
                  Msg(IF isImports THEN "IMPORTS_FALLBACK_ARRAY_USE"
                                   ELSE "EXPORTS_FALLBACK_ARRAY_USE",
                      "warning", currentPath, NoArgs))])
  ELSE IF Truthy(exportsValue) THEN
    IF exportsValue.t # "map"
    THEN \* a number or true: the `in` operator throws a TypeError
         [acc EXCEPT !.threw = TRUE]
    ELSE CrawlKeys(exportsValue, 1, currentPath, isImports,
                   LoopStartAfterNode(isAfterNodeCondition),
                   [acc EXCEPT !.msgs = acc.msgs \o MapMsgs(exportsValue, currentPath, isImports)])
  ELSE acc

\* a crawl that leaves the elements of an array alone
SkipArray(exportsValue, i, currentPath, isImports, isAfterNodeCondition, acc) == acc

\* lines 890-897
CrawlArray(exportsValue, i, currentPath, isImports, isAfterNodeCondition, acc) ==
  IF i > Len(exportsValue.e) THEN acc
  ELSE CrawlArray(exportsValue, i + 1, currentPath, isImports, isAfterNodeCondition,
         crawlExportsOrImports(exportsValue.e[i], Append(currentPath, IndexStr(i - 1)),
                               isImports, isAfterNodeCondition, acc))

\* lines 997-1019
CrawlKeys(exportsValue, i, currentPath, isImports, isKeyAfterNodeCondition, acc) ==
  IF i > Len(exportsValue.e) \/ acc.threw THEN acc
  ELSE
    LET key == exportsValue.e[i].k
        acc1 == IF IsCurrentPathImports(currentPath, isImports) /\ ~StartsWith(key, "#")
                THEN [acc EXCEPT !.msgs = Push(acc.msgs,
                        Msg("IMPORTS_KEY_INVALID", "error", Append(currentPath, key),
                            [suggestKey |-> SuggestKey(key)]))]
                ELSE acc
        acc2 == crawlExportsOrImports(exportsValue.e[i].v, Append(currentPath, key),
                                      isImports, isKeyAfterNodeCondition, acc1)
    IN  CrawlKeys(exportsValue, i + 1, currentPath, isImports,
                  NextAfterNode(isKeyAfterNodeCondition, key), acc2)

-----------------------------------------------------------------------------
(* core(): the checks that run synchronously while they are pushed. *)

\* ensureTypeOfField: [ok, msgs]
ensureTypeOfField(fieldValue, expectTypes, pkgPath) ==
  IF TypeOf(fieldValue) \in expectTypes
  THEN [ok |-> TRUE, msgs |-> <<>>]
  ELSE [ok |-> FALSE,
        msgs |-> <<Msg("FIELD_INVALID_VALUE_TYPE", "error", pkgPath,
                       [actualType |-> TypeOf(fieldValue), expectTypes |-> expectTypes])>>]

\* lines 133-146, the LOCAL_DEPENDENCY task from entry i on: startsWith on a
\* version that is not a string throws, which rejects the task's promise
RECURSIVE DependenciesTask(_, _, _)
DependenciesTask(dependencies, i, acc) ==
  IF i > Len(Keys(dependencies)) THEN acc
  ELSE
    LET depName == Keys(dependencies)[i]
        depVersion == Get(dependencies, depName)
    IN  IF depVersion.t # "str" THEN [acc EXCEPT !.failed = TRUE]
        ELSE DependenciesTask(dependencies, i + 1,
               IF StartsWith(depVersion.s, "file:") \/ StartsWith(depVersion.s, "link:")
               THEN [acc EXCEPT !.msgs = Push(acc.msgs,
                       Msg("LOCAL_DEPENDENCY", "error", <<"dependencies", depName>>, NoArgs))]
               ELSE acc)

\* SHORTHAND_REPOSITORY_URL_RE:
\* /^(?:(?:github|bitbucket|gitlab):[^/]+\/.+|gist:.+|[^/]+\/[^/]+)$/
isShorthandRepositoryUrl(url) ==
  LET slashes(str) == {i \in 1..Len(str) : Char(str, i) = "/"}
      hosted(prefix) ==
        /\ StartsWith(url, prefix)
        /\ LET rest == SubSeq(url, Len(prefix) + 1, Len(url))
           IN  /\ slashes(rest) # {}
               /\ LET first == CHOOSE i \in slashes(rest) : \A j \in slashes(rest) : i <= j
                  IN  first > 1 /\ first < Len(rest)
  IN  \/ hosted("github:") \/ hosted("bitbucket:") \/ hosted("gitlab:")
      \/ (StartsWith(url, "gist:") /\ Len(url) > 5)
      \/ (Cardinality(slashes(url)) = 1 /\ Char(url, 1) # "/" /\ Char(url, Len(url)) # "/")

\* checkRepositoryField, lines 535-592, for a repository that is a scalar, null,
\* a string, or an object that is not {type: 'git', url}: [msgs, failed].
\* The git URL checks of lines 555-590 are outside the manifests drawn here.
checkRepositoryField(repository) ==
  LET typed == ensureTypeOfField(repository, {"string", "object"}, <<"repository">>)
  IN  CASE ~typed.ok -> [msgs |-> typed.msgs, failed |-> FALSE]
        [] repository.t = "str" ->
             [msgs |-> IF ~isShorthandRepositoryUrl(repository.s)
                       THEN <<Msg("INVALID_REPOSITORY_VALUE", "warning", <<"repository">>,
                                  [type |-> "invalid-string-shorthand"])>>
                       ELSE <<>>,
              failed |-> FALSE]
        \* repository.url of null throws a TypeError
        [] repository.t = "null" -> [msgs |-> <<>>, failed |-> TRUE]
        [] /\ repository.t \in {"map", "arr"}
           /\ ~(Truthy(Get(repository, "url")) /\ Get(repository, "type") = JStr("git")) ->
             [msgs |-> <<>>, failed |-> FALSE]

\* a task whose async function has no await: settled as soon as it is pushed
SyncTask(kind, failed) == [kind |-> kind, pc |-> IF failed THEN "failed" ELSE "done"]

\* doCheckTypesExported, lines 1023-1041: the tasks it pushes
doCheckTypesExported(exports) ==
  LET task(rootKey) == <<[kind |-> "types", pc |-> "find", rootKey |-> rootKey]>>
  IN  IF exports.t = "str" THEN task("")
      ELSE IF TypeOf(exports) = "object" THEN
        IF Len(Keys(exports)) = 0 THEN <<>>
        ELSE IF ~StartsWith(Keys(exports)[1], ".") THEN task("")
        ELSE IF HasKey(exports, ".") THEN task(".")
        ELSE <<>>
      ELSE <<>>

\* The fields of the manifest whose checks are modelled. The manifests drawn
\* set `files` and `license` (no USE_FILES and USE_LICENSE tasks) and leave
\* out `browser`, so lines 83-129, 355-377 and 762-766 push nothing.
ModelledFields ==
  {"name", "files", "license", "type", "dependencies", "repository", "exports", "imports",
   "main", "module", "bin", "types", "typings", "jsnext:main", "jsnext", "unpkg", "jsdelivr"}

InModelledDomain(rootPkg) ==
  /\ rootPkg.t = "map"
  /\ \A i \in DOMAIN rootPkg.e : rootPkg.e[i].k \in ModelledFields
  /\ Get(rootPkg, "files").t = "arr"
  /\ Get(rootPkg, "license").t = "str"

\* the pass so far with the messages of a check that pushes no task
AddMsgs(acc, msgs) == [acc EXCEPT !.msgs = acc.msgs \o msgs]

\* the pass so far with a task whose function has run to its end while it
\* was pushed: check is [msgs, failed]
AddSyncTask(acc, kind, check) ==
  [acc EXCEPT !.msgs = acc.msgs \o check.msgs,
              !.tasks = Append(acc.tasks, SyncTask(kind, check.failed))]

\* lines 132-147
ScheduleDependencies(rootPkg, acc) ==
  IF Truthy(Get(rootPkg, "dependencies"))
  THEN AddSyncTask(acc, "dependencies",
                   DependenciesTask(Get(rootPkg, "dependencies"), 1,
                                    [msgs |-> <<>>, failed |-> FALSE]))
  ELSE acc

\* lines 151-158
ScheduleUseType(rootPkg, acc) ==
  IF Get(rootPkg, "type").t \in {"null", "undef"}
  THEN AddMsgs(acc, <<Msg("USE_TYPE", "suggestion", <<"name">>, NoArgs)>>)
  ELSE acc

\* lines 307-309
ScheduleRepository(rootPkg, acc) ==
  IF HasKey(rootPkg, "repository")
  THEN AddSyncTask(acc, "repository", checkRepositoryField(Get(rootPkg, "repository")))
  ELSE acc

\* line 383, unless the crawl of line 381 threw
ScheduleTypesExported(exports, acc) ==
  IF acc.threw THEN acc
  ELSE [acc EXCEPT !.tasks = acc.tasks \o doCheckTypesExported(exports.value)]

\* lines 379-383
ScheduleExports(exports, acc) ==
  ScheduleTypesExported(exports,
    crawlExportsOrImports(exports.value, exports.path, FALSE, FALSE, acc))

\* line 463, the test of the second conjunct: typed is [ok, msgs]
ScheduleTypedImports(imports, typed, acc) ==
  IF ~typed.ok THEN AddMsgs(acc, typed.msgs)
  ELSE crawlExportsOrImports(imports.value, imports.path, TRUE, FALSE, acc)

\* lines 462-465
ScheduleImports(imports, acc) ==
  IF acc.threw \/ ~Truthy(imports.value) THEN acc
  ELSE ScheduleTypedImports(imports,
                            ensureTypeOfField(imports.value, {"object"}, imports.path), acc)

\* v == null
IsNullish(v) == v.t \in {"null", "undef"}

\* the string of a string value
StringOf(v) == IF v.t = "str" THEN v.s ELSE ""

\* the pass so far with a task that awaits
AddTask(acc, task) == [acc EXCEPT !.tasks = Append(acc.tasks, task)]

\* A task that reads the one file a manifest field names: the implicit
\* index.js (lines 164-188), main (197-237), module (247-275), a field of
\* knownFields (328-343) or a command of bin (1240-1275). pc "exist" awaits
\* isPathExist, "read" readFile, "format" getFilePathFormat; read is the path
\* readFile has read.
FieldTask(field, value, path) ==
  [kind |-> "field", field |-> field, pc |-> IF field = "index" THEN "exist" ELSE "read",
   value |-> value, path |-> path, read |-> ""]

\* the task of lines 386-452: pc "files" awaits exportsGlob, "wait" the
\* pq.wait() of line 451; sub is the nested queue of line 391
GlobTask == [kind |-> "glob", pc |-> "files", sub |-> <<>>]

\* lines 163-189
ScheduleImplicitIndex(rootPkg, acc) ==
  IF /\ IsNullish(getPublishedField(rootPkg, "main").value)
     /\ IsNullish(getPublishedField(rootPkg, "module").value)
     /\ IsNullish(getPublishedField(rootPkg, "exports").value)
  THEN AddTask(acc, FieldTask("index", "index.js", <<"name">>))
  ELSE acc

\* lines 197-198 and 247-248: the task returns before its first await when
\* the field is not a string; typed is [ok, msgs]
ScheduleTypedField(typed, task, acc) ==
  IF typed.ok THEN AddTask(acc, task)
  ELSE AddSyncTask(acc, task.field, [msgs |-> typed.msgs, failed |-> FALSE])

\* lines 196-238 and 246-276, up to the first await
ScheduleMainField(name, field, acc) ==
  IF IsNullish(field.value) THEN acc
  ELSE ScheduleTypedField(ensureTypeOfField(field.value, {"string"}, field.path),
                          FieldTask(name, StringOf(field.value), field.path), acc)

\* lines 294-296
MainFields(rootPkg) ==
  (IF Truthy(getPublishedField(rootPkg, "main").value) THEN <<"main">> ELSE <<>>)
    \o (IF Truthy(getPublishedField(rootPkg, "module").value) THEN <<"module">> ELSE <<>>)

\* lines 283-291: !hasRootExports
MissingRootExports(exports) ==
  /\ TypeOf(exports) = "object"
  /\ Len(Keys(exports)) > 0
  /\ StartsWith(Keys(exports)[1], ".")
  /\ ~HasKey(exports, ".")

\* lines 281-303
ScheduleMissingRoot(rootPkg, exports, acc) ==
  IF /\ \/ ~IsNullish(getPublishedField(rootPkg, "main").value)
        \/ ~IsNullish(getPublishedField(rootPkg, "module").value)
     /\ ~IsNullish(exports.value)
     /\ MissingRootExports(exports.value)
  THEN AddMsgs(acc, <<Msg("EXPORTS_MISSING_ROOT_ENTRYPOINT", "warning", exports.path,
                          [mainFields |-> MainFields(rootPkg)])>>)
  ELSE acc

\* lines 312-325
knownFields(rootPkg) ==
  IF Truthy(getPublishedField(rootPkg, "typesVersions").value)
  THEN <<"jsnext:main", "jsnext", "unpkg", "jsdelivr">>
  ELSE <<"types", "typings", "jsnext:main", "jsnext", "unpkg", "jsdelivr">>

\* lines 327-331: typed is [ok, msgs]
ScheduleKnownField(typed, task, acc) ==
  IF typed.ok THEN AddTask(acc, task) ELSE AddMsgs(acc, typed.msgs)

\* lines 326-352, from the i-th field on
RECURSIVE ScheduleKnownFields(_, _, _, _)
ScheduleKnownFields(rootPkg, fields, i, acc) ==
  IF i > Len(fields) THEN acc
  ELSE
    LET field == getPublishedField(rootPkg, fields[i])
    IN  ScheduleKnownFields(rootPkg, fields, i + 1,
          IF IsNullish(field.value) THEN acc
          ELSE ScheduleKnownField(ensureTypeOfField(field.value, {"string"}, field.path),
                                  FieldTask(fields[i], StringOf(field.value), field.path),
                                  acc))

\* lines 379-453
ScheduleExportsOrGlob(exports, acc) ==
  IF Truthy(exports.value) THEN ScheduleExports(exports, acc)
  ELSE AddTask(acc, GlobTask)

\* crawlBin, lines 1233-1287, up to the first await of each task; the keys
\* of an object from the i-th on
RECURSIVE crawlBin(_, _, _, _)
crawlBin(binValue, i, currentPath, acc) ==
  IF binValue.t = "str" THEN AddTask(acc, FieldTask("bin", binValue.s, currentPath))
  ELSE IF TypeOf(binValue) # "object" \/ binValue.t = "null" \/ i > Len(Keys(binValue)) THEN acc
  ELSE
    LET key == Keys(binValue)[i]
        typed == ensureTypeOfField(Get(binValue, key), {"string"}, Append(currentPath, key))
    IN  crawlBin(binValue, i + 1, currentPath,
          IF typed.ok THEN crawlBin(Get(binValue, key), 1, Append(currentPath, key), acc)
          ELSE AddMsgs(acc, typed.msgs))

\* lines 456-459
ScheduleBin(bin, acc) ==
  IF acc.threw \/ ~Truthy(bin.value) THEN acc
  ELSE crawlBin(bin.value, 1, bin.path, acc)

\* lines 79-465 of core(): everything between the manifest being parsed and
\* `await promiseQueue.wait()`: [msgs, tasks, threw]
ScheduleChecks(rootPkg) ==
  ScheduleImports(getPublishedField(rootPkg, "imports"),
    ScheduleBin(getPublishedField(rootPkg, "bin"),
      ScheduleExportsOrGlob(getPublishedField(rootPkg, "exports"),
        ScheduleKnownFields(rootPkg, knownFields(rootPkg), 1,
          ScheduleRepository(rootPkg,
            ScheduleMissingRoot(rootPkg, getPublishedField(rootPkg, "exports"),
              ScheduleMainField("module", getPublishedField(rootPkg, "module"),
                ScheduleMainField("main", getPublishedField(rootPkg, "main"),
                  ScheduleImplicitIndex(rootPkg,
                    ScheduleUseType(rootPkg,
                      ScheduleDependencies(rootPkg,
                        [msgs |-> <<>>, tasks |-> <<>>, threw |-> FALSE])))))))))))

-----------------------------------------------------------------------------
(* The Vfs port (typedef at core.js lines 37-46) over a file tree. A file is  *)
(* [path, kind, text, json]: kind "text" holds source text, "json" a          *)
(* package.json that parses to json, "badjson" one that does not parse, and   *)
(* "root" the manifest of the package root, whose parsed value is pkg.        *)
(* Paths are POSIX paths, as node:path produces them.                         *)

\* option pkgDir: the package root the caller passes
pkgDir == root

File(path, kind, text, json) == [path |-> path, kind |-> kind, text |-> text, json |-> json]

\* str.split('/')
RECURSIVE SplitSlash(_)
SplitSlash(str) ==
  IF ~Includes(str, "/") THEN <<str>>
  ELSE LET i == CHOOSE i \in 1..Len(str) :
                  Char(str, i) = "/" /\ \A j \in 1..(i - 1) : Char(str, j) # "/"
       IN  <<SubSeq(str, 1, i - 1)>> \o SplitSlash(SubSeq(str, i + 1, Len(str)))

RECURSIVE JoinSlash(_)
JoinSlash(segs) ==
  IF segs = <<>> THEN ""
  ELSE IF Len(segs) = 1 THEN segs[1]
  ELSE segs[1] \o "/" \o JoinSlash(Tail(segs))

\* the segments of a path with '', '.' and '..' resolved
RECURSIVE NormalSegs(_, _, _)
NormalSegs(segs, out, isAbs) ==
  IF segs = <<>> THEN out
  ELSE LET h == Head(segs)
       IN  NormalSegs(Tail(segs),
             IF h = "" \/ h = "." THEN out
             ELSE IF h = ".." THEN
               IF out # <<>> /\ Last(out) # ".." THEN SubSeq(out, 1, Len(out) - 1)
               ELSE IF isAbs THEN out
               ELSE Append(out, "..")
             ELSE Append(out, h),
             isAbs)

\* path.normalize
Normalize(path) ==
  LET isAbs == StartsWith(path, "/")
      body == JoinSlash(NormalSegs(SplitSlash(path), <<>>, isAbs))
      trail == IF EndsWith(path, "/") /\ body # "" THEN "/" ELSE ""
  IN  IF isAbs THEN "/" \o body \o trail
      ELSE IF body = "" THEN (IF EndsWith(path, "/") THEN "./" ELSE ".")
      ELSE body \o trail

\* vfs.pathJoin(a, b): path.join
pathJoin(a, b) ==
  IF a = "" THEN Normalize(b)
  ELSE IF b = "" THEN Normalize(a)
  ELSE Normalize(a \o "/" \o b)

\* vfs.getDirName: path.dirname
getDirName(path) ==
  LET trimmed == IF Len(path) > 1 /\ EndsWith(path, "/") THEN SubSeq(path, 1, Len(path) - 1)
                 ELSE path
      slashes == {i \in 1..Len(trimmed) : Char(trimmed, i) = "/"}
  IN  IF slashes = {} THEN "."
      ELSE LET last == CHOOSE i \in slashes : \A j \in slashes : j <= i
           IN  IF last = 1 THEN "/" ELSE SubSeq(trimmed, 1, last - 1)

\* the last segment of a path
BaseName(path) == Last(SplitSlash(path))

\* vfs.getExtName: path.extname
getExtName(path) ==
  LET base == BaseName(path)
      dots == {i \in 2..Len(base) : Char(base, i) = "."}
  IN  IF dots = {} \/ base = ".." THEN ""
      ELSE SubSeq(base, CHOOSE i \in dots : \A j \in dots : j <= i, Len(base))

\* vfs.pathRelative(from, to): path.relative of two absolute paths
pathRelative(from, to) ==
  LET f == NormalSegs(SplitSlash(from), <<>>, TRUE)
      t == NormalSegs(SplitSlash(to), <<>>, TRUE)
      same(n) == n <= Len(f) /\ n <= Len(t) /\ \A i \in 1..n : f[i] = t[i]
      common == CHOOSE n \in 0..Len(f) : same(n) /\ ~same(n + 1)
  IN  JoinSlash([i \in 1..(Len(f) - common) |-> ".."] \o SubSeq(t, common + 1, Len(t)))

IsFile(tree, path) == \E i \in DOMAIN tree : tree[i].path = path

FileAt(tree, path) == tree[CHOOSE i \in DOMAIN tree : tree[i].path = path]

\* vfs.isPathDir
isPathDir(tree, path) ==
  LET dir == IF EndsWith(path, "/") THEN path ELSE path \o "/"
  IN  \E i \in DOMAIN tree : StartsWith(tree[i].path, dir) /\ tree[i].path # dir

\* vfs.isPathExist
isPathExist(tree, path) ==
  \/ IsFile(tree, path)
  \/ isPathDir(tree, path)
  \/ (Len(path) > 1 /\ EndsWith(path, "/") /\ isPathDir(tree, SubSeq(path, 1, Len(path) - 1)))

\* vfs.readDir: the names in a directory, in the order the tree lists them
RECURSIVE ReadDirFrom(_, _, _, _)
ReadDirFrom(tree, dir, i, out) ==
  IF i > Len(tree) THEN out
  ELSE LET prefix == IF EndsWith(dir, "/") THEN dir ELSE dir \o "/"
           path == tree[i].path
           name == Head(SplitSlash(SubSeq(path, Len(prefix) + 1, Len(path))))
       IN  ReadDirFrom(tree, dir, i + 1,
             IF StartsWith(path, prefix) /\ path # prefix /\ ~SeqIncludes(out, name)
             THEN Append(out, name) ELSE out)

readDir(tree, dir) == ReadDirFrom(tree, dir, 1, <<>>)

-----------------------------------------------------------------------------
(* The format classifier of utils.js. Each regular expression is matched as   *)
(* the engine matches it, on source text without U+2028 and U+2029.         *)

CharsOf(str) == {Char(str, i) : i \in 1..Len(str)}

\* \s
WhiteSpace == {" ", "\t", "\n", "\r", "\f"}

\* \w
WordChars == CharsOf("abcdefghijklmnopqrstuvwxyzABCDEFGHIJKLMNOPQRSTUVWXYZ0123456789_")

\* the characters `.` does not match
LineEnds == {"\n", "\r"}

\* every character of code[from..to] is in the class
AllIn(code, from, to, class) == \A k \in from..to : Char(code, k) \in class

\* \b after a word that ends at position i - 1
WordEndsBefore(code, i) == i > Len(code) \/ Char(code, i) \notin WordChars

\* ([\s;]|^) under the m flag, before position i
AfterSpaceOrStart(code, i) == i = 1 \/ Char(code, i - 1) \in (WhiteSpace \cup {";"})

\* literal at i, then a run of class characters, then one of the followers
ThenAfter(code, i, literal, class, followers) ==
  /\ MatchAt(code, i, literal)
  /\ \E j \in (i + Len(literal))..Len(code) :
       /\ AllIn(code, i + Len(literal), j - 1, class)
       /\ \E f \in followers : MatchAt(code, j, f)

\* ESM_CONTENT_RE, line 19-20
isCodeEsm(code) ==
  \E i \in 1..Len(code) :
    /\ AfterSpaceOrStart(code, i)
    /\ \/ ThenAfter(code, i, "import", WordChars \cup WhiteSpace \cup {",", "{", "}", "*"},
                    {"from"})
       \/ ThenAfter(code, i, "import", WhiteSpace, {"'", "\"", "*", "{"})
       \/ /\ WordEndsBefore(code, i + 6)
          /\ ThenAfter(code, i, "export", WhiteSpace,
                       {"*", "{", "default", "type", "function", "const", "var", "let",
                        "async function"})
       \/ MatchAt(code, i, "import.meta") /\ WordEndsBefore(code, i + 11)

\* CJS_CONTENT_RE, line 29-30
isCodeCjs(code) ==
  \E i \in 1..Len(code) :
    /\ AfterSpaceOrStart(code, i)
    /\ \/ /\ MatchAt(code, i, "module") /\ MatchAt(code, i + 7, "exports")
          /\ Char(code, i + 6) \notin LineEnds
          /\ WordEndsBefore(code, i + 14)
       \/ MatchAt(code, i, "exports.") /\ i + 8 <= Len(code) /\ Char(code, i + 8) \in WordChars
       \/ ThenAfter(code, i, "require", WhiteSpace, {"("})
       \/ MatchAt(code, i, "global.") /\ i + 7 <= Len(code) /\ Char(code, i + 7) \in WordChars
       \/ \E fn \in {"Object.defineProperty", "Object.defineProperties", "Object.assign"} :
            /\ MatchAt(code, i, fn)
            /\ \E j \in (i + Len(fn))..Len(code) :
                 /\ AllIn(code, i + Len(fn), j - 1, WhiteSpace)
                 /\ Char(code, j) = "("
                 /\ \E k \in (j + 1)..Len(code) :
                      /\ AllIn(code, j + 1, k - 1, WhiteSpace)
                      /\ MatchAt(code, k, "exports")
                      /\ WordEndsBefore(code, k + 7)

\* code.replace(MULTILINE_COMMENTS_RE, ''): from each `/*` to the first `*/` after it
RECURSIVE StripMultiline(_, _)
StripMultiline(code, i) ==
  IF i > Len(code) THEN ""
  ELSE IF MatchAt(code, i, "/*") /\ \E j \in (i + 2)..Len(code) : MatchAt(code, j, "*/")
  THEN LET j == CHOOSE j \in (i + 2)..Len(code) :
                  MatchAt(code, j, "*/") /\ \A k \in (i + 2)..(j - 1) : ~MatchAt(code, k, "*/")
       IN  StripMultiline(code, j + 2)
  ELSE Char(code, i) \o StripMultiline(code, i + 1)

\* code.replace(SINGLELINE_COMMENTS_RE, ''): from each `//` to the end of its line
RECURSIVE StripSingleline(_, _, _)
StripSingleline(code, i, inComment) ==
  IF i > Len(code) THEN ""
  ELSE IF inComment
  THEN IF Char(code, i) \in LineEnds THEN Char(code, i) \o StripSingleline(code, i + 1, FALSE)
       ELSE StripSingleline(code, i + 1, TRUE)
  ELSE IF MatchAt(code, i, "//") THEN StripSingleline(code, i + 2, TRUE)
  ELSE Char(code, i) \o StripSingleline(code, i + 1, FALSE)

\* stripComments
stripComments(code) == StripSingleline(StripMultiline(code, 1), 1, FALSE)

\* lines 113-124
CodeFormatOf(isEsm, isCjs) ==
  IF isEsm /\ isCjs THEN "mixed"
  ELSE IF isEsm THEN "ESM"
  ELSE IF isCjs THEN "CJS"
  ELSE "unknown"

\* getCodeFormat
getCodeFormat(code) ==
  CodeFormatOf(isCodeEsm(stripComments(code)), isCodeCjs(stripComments(code)))

\* isFileContentLintable: FLOW_COMMENT_RE = /^\s*(?:\/\/|\/\*\*?|\*)\s*@flow/m
isFileContentLintable(fileContent) ==
  ~ \E i \in 1..Len(fileContent) :
      /\ (i = 1 \/ Char(fileContent, i - 1) \in LineEnds)
      /\ \E j \in i..Len(fileContent) :
           /\ AllIn(fileContent, i, j - 1, WhiteSpace)
           /\ \E opener \in {"//", "/*", "/**", "*"} :
                ThenAfter(fileContent, j, opener, WhiteSpace, {"@flow"})

\* getCodeFormatExtension
getCodeFormatExtension(format) ==
  CASE format = "ESM" -> ".mjs"
    [] format = "CJS" -> ".cjs"
    [] OTHER -> ".js"

\* isExplicitExtension
isExplicitExtension(path) == EndsWith(path, ".mjs") \/ EndsWith(path, ".cjs")

\* lintableFileExtensions of constants.js
lintableFileExtensions == {".js", ".mjs", ".cjs"}

\* invalidJsxExtensions of constants.js, in the order find() tries them
invalidJsxExtensions == <<".mjsx", ".cjsx", ".mtsx", ".ctsx">>

\* isFilePathLintable
isFilePathLintable(filePath) == \E ext \in lintableFileExtensions : EndsWith(filePath, ext)

\* str.lastIndexOf(search) >= 0, and replaceLast
replaceLast(str, search, replace) ==
  LET at == {i \in 1..(Len(str) + 1) : MatchAt(str, i, search)}
  IN  IF at = {} THEN str
      ELSE LET index == CHOOSE i \in at : \A j \in at : j <= i
           IN  SubSeq(str, 1, index - 1) \o replace \o SubSeq(str, index + Len(search), Len(str))

\* getNearestPkg: the first ancestor directory, from the file's own upwards, whose
\* package.json exists and parses; JUndef when the walk passes the root
RECURSIVE NearestPkgFrom(_, _, _)
NearestPkgFrom(tree, rootPkg, currentDir) ==
  LET pkgJsonPath == pathJoin(currentDir, "package.json")
      parses == IsFile(tree, pkgJsonPath) /\ FileAt(tree, pkgJsonPath).kind \in {"root", "json"}
  IN  IF isPathExist(tree, pkgJsonPath) /\ parses
      THEN IF FileAt(tree, pkgJsonPath).kind = "root" THEN rootPkg
           ELSE FileAt(tree, pkgJsonPath).json
      ELSE IF getDirName(currentDir) = currentDir THEN JUndef
      ELSE NearestPkgFrom(tree, rootPkg, getDirName(currentDir))

getNearestPkg(tree, rootPkg, filePath) == NearestPkgFrom(tree, rootPkg, getDirName(filePath))

\* every manifest read as one of a CommonJS package
FormatIgnoringType(nearestPkg) == "CJS"

\* nearestPkg?.type === 'module' ? 'ESM' : 'CJS'
FormatOfType(nearestPkg) ==
  IF nearestPkg.t \notin {"null", "undef"} /\ Get(nearestPkg, "type") = JStr("module")
  THEN "ESM" ELSE "CJS"

\* getFilePathFormat
getFilePathFormat(tree, rootPkg, filePath) ==
  LET path == IF EndsWith(filePath, ".native.js") THEN SubSeq(filePath, 1, Len(filePath) - 10)
              ELSE filePath
  IN  IF EndsWith(path, ".mjs") THEN "ESM"
      ELSE IF EndsWith(path, ".cjs") THEN "CJS"
      ELSE FormatOfType(getNearestPkg(tree, rootPkg, path))

-----------------------------------------------------------------------------
(* exportsGlob of utils.js, lines 136-221. *)

\* str.split(sep) for a one-character separator
RECURSIVE SplitOn(_, _)
SplitOn(str, sep) ==
  IF ~Includes(str, sep) THEN <<str>>
  ELSE LET i == CHOOSE i \in 1..Len(str) :
                  Char(str, i) = sep /\ \A j \in 1..(i - 1) : Char(str, j) # sep
       IN  <<SubSeq(str, 1, i - 1)>> \o SplitOn(SubSeq(str, i + 1, Len(str)), sep)

\* slash: every backslash becomes a slash
slash(str) == JoinSlash(SplitOn(str, "\\"))

\* str.match(new RegExp('^' + parts.map(escapeRegExp).join('(.+)') + '$')):
\* [ok, caps], each group taking the longest text that lets the rest match
RECURSIVE GlobMatch(_, _)
GlobMatch(parts, str) ==
  IF Len(parts) = 1 THEN [ok |-> str = parts[1], caps |-> <<>>]
  ELSE IF ~StartsWith(str, parts[1]) THEN [ok |-> FALSE, caps |-> <<>>]
  ELSE
    LET rest == SubSeq(str, Len(parts[1]) + 1, Len(str))
        after(n) == SubSeq(rest, n + 1, Len(rest))
        fits == {n \in 1..Len(rest) : GlobMatch(Tail(parts), after(n)).ok}
    IN  IF fits = {} THEN [ok |-> FALSE, caps |-> <<>>]
        ELSE LET n == CHOOSE n \in fits : \A m \in fits : m <= n
             IN  [ok |-> TRUE,
                  caps |-> <<SubSeq(rest, 1, n)>> \o GlobMatch(Tail(parts), after(n)).caps]

\* line 149: globStr.split('*')[0].match(/(.+)[/\\]/)?.[1], "" for undefined
TopDir(globStr) ==
  LET head == SplitOn(globStr, "*")[1]
      seps == {i \in 2..Len(head) : Char(head, i) \in {"/", "\\"}}
  IN  IF seps = {} THEN ""
      ELSE SubSeq(head, 1, (CHOOSE i \in seps : \A j \in seps : j <= i) - 1)

\* no key excludes
NoExcludedKeys(exportsKey, exports) == {}

\* lines 154-163: the keys of exports whose value is null
ExcludedExportKeys(exportsKey, exports) ==
  IF exportsKey # "" /\ Truthy(exports)
  THEN {k \in {Keys(exports)[i] : i \in DOMAIN Keys(exports)} : Get(exports, k).t = "null"}
  ELSE {}

\* exportsKey.replace('*', captured): the first `*` only
ReplaceFirstStar(exportsKey, captured) ==
  IF ~Includes(exportsKey, "*") THEN exportsKey
  ELSE LET parts == SplitOn(exportsKey, "*")
       IN  parts[1] \o captured
             \o SubSeq(exportsKey, Len(parts[1]) + 2, Len(exportsKey))

\* a match is enough, whatever its groups captured
GlobAcceptsAnyCapture(globStr, itemPath, exportsKey, exports) ==
  GlobMatch(SplitOn(slash(globStr), "*"), slash(itemPath)).ok

\* lines 187-215: is the file at itemPath one of the glob's results
GlobAccepts(globStr, itemPath, exportsKey, exports) ==
  LET matched == GlobMatch(SplitOn(slash(globStr), "*"), slash(itemPath))
      allGlobSame == \A i \in DOMAIN matched.caps : matched.caps[i] = matched.caps[1]
      excluded == ExcludedExportKeys(exportsKey, exports)
  IN  /\ matched.ok
      /\ allGlobSame
      /\ ~(/\ exportsKey # "" /\ Truthy(exports) /\ excluded # {}
           /\ \E key \in excluded :
                GlobMatch(SplitOn(key, "*"), ReplaceFirstStar(exportsKey, matched.caps[1])).ok)

\* every item is within
AlwaysWithin(packedFiles, itemPath) == TRUE

\* lines 180-183: ensure the file is within the packed files (if provided)
WithinPacked(packedFiles, itemPath) ==
  ~packedFiles.given
    \/ \E i \in DOMAIN packedFiles.files : StartsWith(packedFiles.files[i], itemPath)

\* scanDir, lines 174-220: the items of dirPath from the i-th on
RECURSIVE ScanDir(_, _, _, _, _, _, _)
ScanDir(tree, globStr, packedFiles, exportsKey, exports, dirPath, i) ==
  LET items == readDir(tree, dirPath)
  IN  IF i > Len(items) THEN <<>>
      ELSE
        LET itemPath == pathJoin(dirPath, items[i])
            here ==
              IF ~WithinPacked(packedFiles, itemPath) THEN <<>>
              ELSE IF isPathDir(tree, itemPath)
              THEN ScanDir(tree, globStr, packedFiles, exportsKey, exports, itemPath, 1)
              ELSE IF GlobAccepts(globStr, itemPath, exportsKey, exports) THEN <<itemPath>>
              ELSE <<>>
        IN  here \o ScanDir(tree, globStr, packedFiles, exportsKey, exports, dirPath, i + 1)

\* exportsGlob; exportsKey is "" when it is undefined
exportsGlob(tree, globStr, packedFiles, exportsKey, exports) ==
  IF TopDir(globStr) # "" /\ isPathDir(tree, TopDir(globStr))
  THEN ScanDir(tree, globStr, packedFiles, exportsKey, exports, TopDir(globStr), 1)
  ELSE <<>>

\* getExportsFiles of core.js, lines 672-680
getExportsFiles(tree, packedFiles, exportsValue, exportsKey, exports) ==
  LET exportsPath == IF isRelativePath(exportsValue) THEN pathJoin(pkgDir, exportsValue)
                     ELSE exportsValue
  IN  IF Includes(exportsValue, "*")
      THEN exportsGlob(tree, exportsPath, packedFiles, exportsKey, exports)
      ELSE <<exportsPath>>

-----------------------------------------------------------------------------
(* readFile and the asynchronous part of a leaf task.                         *)

\* the optional pkgPath argument of readFile
NoPkgPath == [given |-> FALSE, path |-> <<>>]
PkgPath(path) == [given |-> TRUE, path |-> path]

\* lines 506-510: the extension as it is appended to path
TryExtension(path, ext) ==
  IF Char(ext, 1) = "/" /\ EndsWith(path, "/") THEN SubSeq(ext, 2, Len(ext)) ELSE ext

\* index of the last extension that reads, 0 if none does
LastReadable(tree, path, tryExtensions, i) ==
  LET reads == {k \in DOMAIN tryExtensions :
                  IsFile(tree, path \o TryExtension(path, tryExtensions[k]))}
  IN  IF reads = {} THEN 0 ELSE CHOOSE k \in reads : \A l \in reads : l <= k

\* lines 506-518: index of the first extension that reads, 0 if none does
RECURSIVE FirstReadable(_, _, _, _)
FirstReadable(tree, path, tryExtensions, i) ==
  IF i > Len(tryExtensions) THEN 0
  ELSE IF IsFile(tree, path \o TryExtension(path, tryExtensions[i])) THEN i
  ELSE FirstReadable(tree, path, tryExtensions, i + 1)

\* fileNotPublished, lines 597-604
fileNotPublished(pkgPath) == Msg("FILE_NOT_PUBLISHED", "error", pkgPath, NoArgs)

\* lines 501-504 and 513-516: the file at `read` has been read
FileContent(packedFiles, read, pkgPath) ==
  [found |-> TRUE, path |-> read,
   msgs |-> IF pkgPath.given /\ packedFiles.given /\ ~SeqIncludes(packedFiles.files, read)
            THEN <<fileNotPublished(pkgPath.path)>> ELSE <<>>]

\* lines 506-527: path itself does not read; i is the first extension that does
ReadWithExtension(packedFiles, path, pkgPath, tryExtensions, i) ==
  IF i > 0
  THEN FileContent(packedFiles, path \o TryExtension(path, tryExtensions[i]), pkgPath)
  ELSE [found |-> FALSE, path |-> path,
        msgs |-> IF pkgPath.given
                 THEN <<Msg("FILE_DOES_NOT_EXIST", "error", pkgPath.path, NoArgs)>>
                 ELSE <<>>]

\* readFile, lines 498-529: [found, path, msgs]; path is the file that was read
readFile(tree, packedFiles, path, pkgPath, tryExtensions) ==
  IF IsFile(tree, path) THEN FileContent(packedFiles, path, pkgPath)
  ELSE ReadWithExtension(packedFiles, path, pkgPath, tryExtensions,
                         FirstReadable(tree, path, tryExtensions, 1))

\* line 612: invalidJsxExtensions.find((ext) => filePath.endsWith(ext)), "" if none
MatchedJsxExtension(filePath) ==
  LET hits == {i \in DOMAIN invalidJsxExtensions : EndsWith(filePath, invalidJsxExtensions[i])}
  IN  IF hits = {} THEN ""
      ELSE invalidJsxExtensions[CHOOSE i \in hits : \A j \in hits : i <= j]

\* lines 791 and 868
GlobbedFilePath(filePath) == "./" \o pathRelative(pkgDir, filePath)

\* hasInvalidJsxExtension, lines 611-626: the message it pushes
InvalidJsxMsg(filePath, currentPath, isGlob) ==
  Msg("FILE_INVALID_JSX_EXTENSION", "error", currentPath,
      IF isGlob
      THEN [actualExtension |-> MatchedJsxExtension(filePath),
            globbedFilePath |-> GlobbedFilePath(filePath)]
      ELSE [actualExtension |-> MatchedJsxExtension(filePath)])

\* a task of the nested queue of line 783: mode "exist" is line 801, mode
\* "lint" lines 805-875; pc "read" awaits readFile, "check" runs lines 808-874
FileTask(filePath, mode) == [filePath |-> filePath, mode |-> mode, pc |-> "read"]

\* lines 786-876: the loop over exportsFiles from the i-th on, acc = [msgs, sub]
RECURSIVE PushFileTasks(_, _, _, _, _)
PushFileTasks(exportsFiles, i, currentPath, isGlob, acc) ==
  IF i > Len(exportsFiles) THEN acc
  ELSE
    LET filePath == exportsFiles[i]
        next ==
          IF MatchedJsxExtension(filePath) # ""
          THEN [acc EXCEPT !.msgs = Push(acc.msgs, InvalidJsxMsg(filePath, currentPath, isGlob))]
          ELSE IF ~isFilePathLintable(filePath)
          THEN IF isAbsolutePath(filePath) /\ ~isFilePathRawTs(filePath)
               THEN [acc EXCEPT !.sub = Append(acc.sub, FileTask(filePath, "exist"))]
               ELSE acc
          ELSE [acc EXCEPT !.sub = Append(acc.sub, FileTask(filePath, "lint"))]
    IN  PushFileTasks(exportsFiles, i + 1, currentPath, isGlob, next)

\* line 740: currentPath[1], "" for undefined
ExportsKeyOf(currentPath) == IF Len(currentPath) >= 2 THEN currentPath[2] ELSE ""

\* lines 747-878: what the task does with the files of getExportsFiles:
\* [msgs, sub]. The manifests drawn hold no `browser` field, so the test of
\* lines 762-766 is false.
LeafWithFiles(task, exportsFiles) ==
  IF Includes(task.value, "*") /\ Len(exportsFiles) = 0
  THEN [msgs |-> <<Msg(IF task.isImports THEN "IMPORTS_GLOB_NO_MATCHED_FILES"
                                         ELSE "EXPORTS_GLOB_NO_MATCHED_FILES",
                       "warning", task.path, NoArgs)>>,
        sub |-> <<>>]
  ELSE PushFileTasks(exportsFiles, 1, task.path, Includes(task.value, "*"),
                     [msgs |-> <<>>, sub |-> <<>>])

\* lines 741-878
LeafAfterFiles(tree, packedFiles, rootPkg, task) ==
  LeafWithFiles(task, getExportsFiles(tree, packedFiles, task.value, ExportsKeyOf(task.path),
                                      getPublishedField(rootPkg, "exports").value))

\* lines 858-873
FormatMsg(task, filePath, actualFormat, expectFormat, actualExtension, expectExtension) ==
  Msg(IF isExplicitExtension(actualExtension) THEN "FILE_INVALID_EXPLICIT_FORMAT"
                                              ELSE "FILE_INVALID_FORMAT",
      "warning", task.path,
      [actualFormat |-> actualFormat, expectFormat |-> expectFormat,
       actualExtension |-> actualExtension, expectExtension |-> expectExtension,
       actualFilePath |-> IF Includes(task.value, "*") THEN GlobbedFilePath(filePath)
                          ELSE task.value])

\* lines 843-873
FormatMismatch(tree, task, filePath, actualFormat, expectFormat, actualExtension, expectExtension) ==
  IF Includes(task.value, "*")
       /\ isPathExist(tree, replaceLast(filePath, actualExtension, expectExtension))
  THEN <<>>
  ELSE <<FormatMsg(task, filePath, actualFormat, expectFormat, actualExtension,
                   expectExtension)>>

\* lines 831-874
FormatCheck(tree, task, filePath, actualFormat, expectFormat) ==
  IF actualFormat = expectFormat \/ actualFormat \in {"unknown", "mixed"} THEN <<>>
  ELSE IF actualFormat = "ESM"
            /\ (Includes(filePath, "browser") \/ Includes(filePath, "bundler"))
  THEN <<>>
  ELSE FormatMismatch(tree, task, filePath, actualFormat, expectFormat,
                      getExtName(filePath), getCodeFormatExtension(actualFormat))

\* lines 811-824
ModuleCheck(task, actualFormat) ==
  IF actualFormat = "CJS"
  THEN <<Msg(IF task.isImports THEN "IMPORTS_MODULE_SHOULD_BE_ESM"
                               ELSE "EXPORTS_MODULE_SHOULD_BE_ESM",
             "error", task.path, NoArgs)>>
  ELSE <<>>

\* the checks of lines 809-874 with the test of line 828 made before the one
\* of line 811
ContentCheckNodeFirst(tree, rootPkg, task, filePath, fileContent) ==
  IF ~isFileContentLintable(fileContent) THEN <<>>
  ELSE IF task.after \/ SeqIncludes(task.path, "browser") THEN <<>>
  ELSE IF SeqIncludes(task.path, "module") THEN ModuleCheck(task, getCodeFormat(fileContent))
  ELSE FormatCheck(tree, task, filePath, getCodeFormat(fileContent),
                   getFilePathFormat(tree, rootPkg, filePath))

\* lines 809-874
ContentCheck(tree, rootPkg, task, filePath, fileContent) ==
  IF ~isFileContentLintable(fileContent) THEN <<>>
  ELSE IF SeqIncludes(task.path, "module") THEN ModuleCheck(task, getCodeFormat(fileContent))
  ELSE IF task.after \/ SeqIncludes(task.path, "browser") THEN <<>>
  ELSE FormatCheck(tree, task, filePath, getCodeFormat(fileContent),
                   getFilePathFormat(tree, rootPkg, filePath))

\* lines 808-874: the messages pushed once fileContent has been read
FileCheckMsgs(tree, rootPkg, task, filePath) ==
  ContentCheck(tree, rootPkg, task, filePath, FileAt(tree, filePath).text)

\* line 1220: what readFile returns is truthy, the content of a file that is
\* not empty
ReadsTruthy(tree, read) == read.found /\ FileAt(tree, read.path).text # ""

\* findTypesFilePath, lines 1211-1227: "" for undefined
findTypesFilePath(tree, packedFiles, rootPkg, exportsKey) ==
  LET types == getPublishedField(rootPkg, "types").value
      typings == getPublishedField(rootPkg, "typings").value
  IN  IF exportsKey \in {"", "."}
      THEN IF Truthy(types) THEN types.s
           ELSE IF Truthy(typings) THEN typings.s
           ELSE IF ReadsTruthy(tree, readFile(tree, packedFiles,
                                              pathJoin(pkgDir, "./index.d.ts"),
                                              NoPkgPath, <<>>))
           THEN "./index.d.ts"
           ELSE ""
      ELSE ""

-----------------------------------------------------------------------------
(* The checks of the manifest fields that name one file, and of every file   *)
(* of a package without exports.                                              *)

\* startsWithShebang: /#!\s*\/usr\/bin\/env/
startsWithShebang(code) ==
  \E i \in 1..Len(code) : ThenAfter(code, i, "#!", WhiteSpace, {"/usr/bin/env"})

\* a comparison that takes every difference for a mismatch
FormatsDiffer(actualFormat, expectFormat) == actualFormat # expectFormat

\* the test of lines 172-176, 209-213, 409-413 and 1258-1262
FormatsDisagree(actualFormat, expectFormat) ==
  actualFormat # expectFormat /\ actualFormat \notin {"unknown", "mixed"}

\* lines 165, 199, 249, 329 and 1241: the path the task reads
FieldFilePath(task) == pathJoin(pkgDir, task.value)

\* the pkgPath and tryExtensions the task hands to readFile
FieldPkgPath(task) == IF task.field = "index" THEN PkgPath(<<>>) ELSE PkgPath(task.path)
FieldExtensions(task) == IF task.field = "index" THEN <<>> ELSE <<".js", "/index.js">>

\* lines 255-274
ModuleFieldMsgs(task, actualFormat, exports) ==
  (IF actualFormat = "CJS"
   THEN <<Msg("MODULE_SHOULD_BE_ESM", "error", task.path, NoArgs)>> ELSE <<>>)
    \o (IF ~Truthy(exports)
        THEN <<Msg("HAS_MODULE_BUT_NO_EXPORTS", "suggestion", task.path, NoArgs)>> ELSE <<>>)

\* lines 1251-1258
ShebangMsgs(task, binContent) ==
  IF startsWithShebang(binContent) THEN <<>>
  ELSE <<Msg("BIN_FILE_NOT_EXECUTABLE", "error", task.path, NoArgs)>>

\* lines 335-347
JsnextMsgs(task, module) ==
  IF task.field \in {"jsnext:main", "jsnext"}
  THEN <<Msg("DEPRECATED_FIELD_JSNEXT", IF Truthy(module) THEN "suggestion" ELSE "warning",
             task.path, NoArgs)>>
  ELSE <<>>

\* what a task does with the content readFile returned, up to its next
\* await: [msgs, pc] (lines 167-168, 204-207, 253-275, 335-347, 1241-1257)
FieldAfterRead(rootPkg, task, content) ==
  CASE task.field = "index" -> [msgs |-> <<>>, pc |-> "format"]
    [] task.field = "main" ->
         IF MatchedJsxExtension(task.value) # ""
         THEN [msgs |-> <<InvalidJsxMsg(task.value, task.path, FALSE)>>, pc |-> "done"]
         ELSE [msgs |-> <<>>,
               pc |-> IF isFilePathLintable(task.value) THEN "format" ELSE "done"]
    [] task.field = "module" ->
         IF MatchedJsxExtension(task.value) # ""
         THEN [msgs |-> <<InvalidJsxMsg(task.value, task.path, FALSE)>>, pc |-> "done"]
         ELSE IF ~isFilePathLintable(task.value) THEN [msgs |-> <<>>, pc |-> "done"]
         ELSE [msgs |-> ModuleFieldMsgs(task, getCodeFormat(content),
                                        getPublishedField(rootPkg, "exports").value),
               pc |-> "done"]
    [] task.field = "bin" ->
         IF ~isFilePathLintable(task.value) THEN [msgs |-> <<>>, pc |-> "done"]
         ELSE [msgs |-> ShebangMsgs(task, content), pc |-> "format"]
    [] OTHER ->
         [msgs |-> JsnextMsgs(task, getPublishedField(rootPkg, "module").value),
          pc |-> "done"]

\* lines 178-186
ImplicitIndexMsg(actualFormat, expectFormat) ==
  Msg("IMPLICIT_INDEX_JS_INVALID_FORMAT", "warning", <<"name">>,
      [actualFormat |-> actualFormat, expectFormat |-> expectFormat])

\* lines 214-227 and 1263-1275
FieldFormatMsg(task, actualFormat, expectFormat, actualExtension) ==
  Msg(IF isExplicitExtension(actualExtension) THEN "FILE_INVALID_EXPLICIT_FORMAT"
                                              ELSE "FILE_INVALID_FORMAT",
      "warning", task.path,
      [actualFormat |-> actualFormat, expectFormat |-> expectFormat,
       actualExtension |-> actualExtension,
       expectExtension |-> getCodeFormatExtension(actualFormat)])

\* lines 229-236
EsmMainMsgs(task, actualFormat, exports) ==
  IF task.field = "main" /\ actualFormat = "ESM" /\ IsNullish(exports)
  THEN <<Msg("HAS_ESM_MAIN_BUT_NO_EXPORTS", "suggestion", task.path, NoArgs)>>
  ELSE <<>>

\* lines 172-187, 209-236 and 1258-1276: what the task pushes once
\* getFilePathFormat has answered
FieldFormatCheck(task, actualFormat, expectFormat, exports) ==
  (IF ~FormatsDisagree(actualFormat, expectFormat) THEN <<>>
   ELSE IF task.field = "index" THEN <<ImplicitIndexMsg(actualFormat, expectFormat)>>
   ELSE <<FieldFormatMsg(task, actualFormat, expectFormat, getExtName(FieldFilePath(task)))>>)
    \o EsmMainMsgs(task, actualFormat, exports)

FieldFormatMsgs(tree, rootPkg, task) ==
  FieldFormatCheck(task, getCodeFormat(FileAt(tree, task.read).text),
                   getFilePathFormat(tree, rootPkg, FieldFilePath(task)),
                   getPublishedField(rootPkg, "exports").value)

\* lines 395 and 432: '/' + vfs.pathRelative(pkgDir, filePath)
RootedFilePath(filePath) == "/" \o pathRelative(pkgDir, filePath)

\* lines 392-450: the loop over the globbed files from the i-th on,
\* acc = [msgs, sub]
RECURSIVE PushGlobTasks(_, _, _)
PushGlobTasks(files, i, acc) ==
  IF i > Len(files) THEN acc
  ELSE
    LET filePath == files[i]
        next ==
          IF MatchedJsxExtension(filePath) # ""
          THEN [acc EXCEPT !.msgs =
                  Push(acc.msgs,
                       Msg("FILE_INVALID_JSX_EXTENSION", "error", <<"name">>,
                           [actualExtension |-> MatchedJsxExtension(filePath),
                            globbedFilePath |-> RootedFilePath(filePath)]))]
          ELSE IF ~isFilePathLintable(filePath) THEN acc
          ELSE [acc EXCEPT !.sub = Append(acc.sub, FileTask(filePath, "lint"))]
    IN  PushGlobTasks(files, i + 1, next)

\* lines 421-446
GlobFormatMsg(tree, filePath, actualFormat, expectFormat, actualExtension, expectExtension) ==
  IF isPathExist(tree, replaceLast(filePath, actualExtension, expectExtension)) THEN <<>>
  ELSE <<Msg(IF isExplicitExtension(actualExtension) THEN "FILE_INVALID_EXPLICIT_FORMAT"
                                                     ELSE "FILE_INVALID_FORMAT",
             "warning", <<"name">>,
             [actualFormat |-> actualFormat, expectFormat |-> expectFormat,
              actualExtension |-> actualExtension, expectExtension |-> expectExtension,
              actualFilePath |-> RootedFilePath(filePath)])>>

\* a check of the globbed files that reports nothing
GlobFormatUnchecked(tree, filePath, actualFormat, expectFormat) == <<>>

\* lines 400-447
GlobFormatCheck(tree, filePath, actualFormat, expectFormat) ==
  IF ~FormatsDisagree(actualFormat, expectFormat) THEN <<>>
  ELSE IF actualFormat = "ESM"
            /\ (Includes(filePath, "browser") \/ Includes(filePath, "bundler"))
  THEN <<>>
  ELSE GlobFormatMsg(tree, filePath, actualFormat, expectFormat, getExtName(filePath),
                     getCodeFormatExtension(actualFormat))

\* lines 396-447: the messages pushed once fileContent has been read
GlobCheckMsgs(tree, rootPkg, filePath) ==
  IF ~isFileContentLintable(FileAt(tree, filePath).text) THEN <<>>
  ELSE GlobFormatCheck(tree, filePath, getCodeFormat(FileAt(tree, filePath).text),
                       getFilePathFormat(tree, rootPkg, filePath))

-----------------------------------------------------------------------------
(* checkTypesExported of core.js, lines 1046-1206, and what it uses of       *)
(* utils.js.                                                                  *)

\* a format read off the manifest alone
FormatOfManifestOnly(tree, rootPkg, filePath) ==
  FormatOfType(getNearestPkg(tree, rootPkg, filePath))

\* getDtsFilePathFormat, utils.js lines 261-266
getDtsFilePathFormat(tree, rootPkg, filePath) ==
  IF EndsWith(filePath, ".d.mts") THEN "ESM"
  ELSE IF EndsWith(filePath, ".d.cts") THEN "CJS"
  ELSE FormatOfType(getNearestPkg(tree, rootPkg, filePath))

\* getDtsCodeFormatExtension, utils.js lines 285-294
getDtsCodeFormatExtension(format) ==
  CASE format = "ESM" -> ".mts"
    [] format = "CJS" -> ".cts"
    [] OTHER -> ".ts"

\* a path that is its own neighbour
SamePath(filePath) == filePath

\* getAdjacentDtsPath, utils.js lines 462-468:
\* filePath.replace(/\.([mc]?)jsx?$/, '.d.$1ts')
getAdjacentDtsPath(filePath) ==
  LET cut(n) == SubSeq(filePath, 1, Len(filePath) - n)
  IN  CASE EndsWith(filePath, ".mjsx") -> cut(5) \o ".d.mts"
        [] EndsWith(filePath, ".cjsx") -> cut(5) \o ".d.cts"
        [] EndsWith(filePath, ".mjs") -> cut(4) \o ".d.mts"
        [] EndsWith(filePath, ".cjs") -> cut(4) \o ".d.cts"
        [] EndsWith(filePath, ".jsx") -> cut(4) \o ".d.ts"
        [] EndsWith(filePath, ".js") -> cut(3) \o ".d.ts"
        [] OTHER -> filePath

\* isDtsFile, utils.js lines 470-476: /\.d\.[mc]?ts$/
isDtsFile(filePath) ==
  EndsWith(filePath, ".d.ts") \/ EndsWith(filePath, ".d.mts") \/ EndsWith(filePath, ".d.cts")

\* undefined, as resolveExports returns it
Unresolved == [found |-> FALSE, value |-> "", path |-> <<>>]

\* resolveExports, utils.js lines 489-506: [found, value, path]
RECURSIVE resolveExports(_, _, _)
RECURSIVE ResolveKeys(_, _, _, _)

\* a loop that goes on after a `default` that does not resolve
RECURSIVE ResolveKeysPastDefault(_, _, _, _)
ResolveKeysPastDefault(exportsValue, i, conditions, currentPath) ==
  IF i > Len(exportsValue.e) THEN Unresolved
  ELSE
    LET key == exportsValue.e[i].k
    IN  IF SeqIncludes(conditions, key) \/ key = "default"
        THEN LET result == resolveExports(exportsValue.e[i].v, conditions,
                                          Append(currentPath, key))
             IN  IF result.found THEN result
                 ELSE ResolveKeysPastDefault(exportsValue, i + 1, conditions, currentPath)
        ELSE ResolveKeysPastDefault(exportsValue, i + 1, conditions, currentPath)

resolveExports(exportsValue, conditions, currentPath) ==
  IF exportsValue.t = "str"
  THEN [found |-> TRUE, value |-> exportsValue.s, path |-> currentPath]
  ELSE IF exportsValue.t = "arr"
  THEN IF Len(exportsValue.e) = 0 THEN Unresolved
       ELSE resolveExports(exportsValue.e[1], conditions, Append(currentPath, "0"))
  ELSE IF exportsValue.t = "map" THEN ResolveKeys(exportsValue, 1, conditions, currentPath)
  ELSE Unresolved

\* lines 496-505: the loop over the keys from the i-th on
ResolveKeys(exportsValue, i, conditions, currentPath) ==
  IF i > Len(exportsValue.e) THEN Unresolved
  ELSE
    LET key == exportsValue.e[i].k
    IN  IF SeqIncludes(conditions, key) \/ key = "default"
        THEN LET result == resolveExports(exportsValue.e[i].v, conditions,
                                          Append(currentPath, key))
             IN  IF result.found \/ key = "default" THEN result
                 ELSE ResolveKeys(exportsValue, i + 1, conditions, currentPath)
        ELSE ResolveKeys(exportsValue, i + 1, conditions, currentPath)

\* path.join('.')
RECURSIVE JoinDot(_)
JoinDot(path) ==
  IF path = <<>> THEN ""
  ELSE IF Len(path) = 1 THEN path[1]
  ELSE path[1] \o "." \o JoinDot(Tail(path))

\* lines 1076 and 1084: the loops, the outer one over the environments
\* ("" for undefined), as one sequence of runs
TypesEnvs == <<"", "node", "browser", "worker">>
TypesFormats == <<"import", "require">>
TypesRuns == Len(TypesEnvs) * Len(TypesFormats)
EnvOf(k) == TypesEnvs[((k - 1) \div Len(TypesFormats)) + 1]
FormatOf(k) == TypesFormats[((k - 1) % Len(TypesFormats)) + 1]

\* conditions.filter(Boolean), line 1068
Conditions(first, env) == first \o (IF env = "" THEN <<>> ELSE <<env>>)

\* lines 1049-1051 and 1055-1057
ExportsRootValue(exports, rootKey) == IF rootKey # "" THEN Get(exports, rootKey) ELSE exports
ExportsRootPath(exportsPkgPath, rootKey) ==
  IF rootKey # "" THEN Append(exportsPkgPath, rootKey) ELSE exportsPkgPath

\* lines 1077-1093 of the k-th run: the resolutions and the key it is seen by
TypesResolved(k, importResult, requireResult, typesResult) ==
  LET isDualPublish == /\ importResult.found /\ requireResult.found
                       /\ importResult.value # requireResult.value
  IN  [found |-> typesResult.found, value |-> typesResult.value, path |-> typesResult.path,
       format |-> FormatOf(k), isDualPublish |-> isDualPublish,
       jsResult |-> IF FormatOf(k) = "import" THEN importResult ELSE requireResult,
       seenKey |-> JoinDot(typesResult.path) \o (IF isDualPublish THEN FormatOf(k) ELSE "")]

TypesRun(exportsRootValue, exportsPath, k) ==
  TypesResolved(k,
    resolveExports(exportsRootValue, Conditions(<<"import">>, EnvOf(k)), exportsPath),
    resolveExports(exportsRootValue, Conditions(<<"require">>, EnvOf(k)), exportsPath),
    resolveExports(exportsRootValue, Conditions(<<"types", FormatOf(k)>>, EnvOf(k)),
                   exportsPath))

\* lines 1076-1099: from the k-th run on, the first run that comes to the
\* await of line 1099, with the keys seen by then; k is past the last run if
\* none does
RECURSIVE TypesAdvance(_, _, _, _)
TypesAdvance(exportsRootValue, exportsPath, k, seen) ==
  IF k > TypesRuns THEN [k |-> k, seen |-> seen]
  ELSE IF ~TypesRun(exportsRootValue, exportsPath, k).found
            \/ TypesRun(exportsRootValue, exportsPath, k).seenKey \in seen
  THEN TypesAdvance(exportsRootValue, exportsPath, k + 1, seen)
  ELSE [k |-> k, seen |-> seen \cup {TypesRun(exportsRootValue, exportsPath, k).seenKey}]

\* the format of the sibling whenever there is one
ExpectBySibling(tree, rootPkg, r) ==
  IF r.jsResult.found /\ isPathExist(tree, pathJoin(pkgDir, r.jsResult.value))
  THEN getFilePathFormat(tree, rootPkg, pathJoin(pkgDir, r.jsResult.value))
  ELSE IF r.format = "import" THEN "ESM" ELSE "CJS"

\* the format of the condition alone
ExpectByCondition(tree, rootPkg, r) == IF r.format = "import" THEN "ESM" ELSE "CJS"

\* lines 1111-1138: the format the declaration file is expected in
DtsExpectFormat(tree, rootPkg, r) ==
  IF ~r.isDualPublish /\ r.jsResult.found
       /\ isPathExist(tree, pathJoin(pkgDir, r.jsResult.value))
  THEN getFilePathFormat(tree, rootPkg, pathJoin(pkgDir, r.jsResult.value))
  ELSE IF r.format = "import" THEN "ESM" ELSE "CJS"

\* lines 1143-1152
TypesExpectPath(path, format) ==
  IF SeqIncludes(path, format) THEN path
  ELSE IF Last(path) = "types"
            /\ \A i \in 1..(Len(path) - 1) : path[i] # "types"
  THEN SubSeq(path, 1, Len(path) - 1) \o <<format, "types">>
  ELSE Append(path, format)

\* lines 1101-1166
DtsFormatMsgs(r, dtsActualFormat, dtsExpectFormat) ==
  IF dtsActualFormat = dtsExpectFormat THEN <<>>
  ELSE <<Msg("EXPORTS_TYPES_INVALID_FORMAT", "warning", r.path,
             [condition |-> r.format,
              actualFormat |-> dtsActualFormat, expectFormat |-> dtsExpectFormat,
              actualExtension |-> getExtName(r.value),
              expectExtension |-> getDtsCodeFormatExtension(dtsExpectFormat),
              expectPath |-> TypesExpectPath(r.path, r.format)])>>

\* lines 1176-1199; an argument that is undefined is left out
TypesNotExportedMsg(r, typesFilePath, dtsActualFormat, dtsExpectFormat) ==
  Msg("TYPES_NOT_EXPORTED", "warning", r.path,
      IF dtsActualFormat = dtsExpectFormat
      THEN [typesFilePath |-> typesFilePath]
      ELSE [typesFilePath |-> typesFilePath,
            actualExtension |-> getExtName(typesFilePath),
            expectExtension |-> getDtsCodeFormatExtension(dtsExpectFormat)])

\* lines 1167-1201
AdjacentDtsMsgs(tree, rootPkg, r, typesFilePath) ==
  IF isPathExist(tree, pathJoin(pkgDir, getAdjacentDtsPath(r.value))) THEN <<>>
  ELSE <<TypesNotExportedMsg(r, typesFilePath,
                             getDtsFilePathFormat(tree, rootPkg,
                                                  pathJoin(pkgDir, typesFilePath)),
                             IF r.format = "import" THEN "ESM" ELSE "CJS")>>

\* lines 1099-1201: what a run pushes once isPathExist has answered
TypesRunMsgs(tree, rootPkg, r, typesFilePath) ==
  IF ~isPathExist(tree, pathJoin(pkgDir, r.value)) THEN <<>>
  ELSE IF isDtsFile(r.value)
  THEN DtsFormatMsgs(r, getDtsFilePathFormat(tree, rootPkg, pathJoin(pkgDir, r.value)),
                     DtsExpectFormat(tree, rootPkg, r))
  ELSE AdjacentDtsMsgs(tree, rootPkg, r, typesFilePath)

-----------------------------------------------------------------------------
(* createPromiseQueue of utils.js, lines 411-418, and the end of core().      *)

\* the promise of a task is fulfilled: its function has run to its end, for a
\* task with a nested queue once the pq.wait() of line 878 or 451 is fulfilled
TaskFulfilled(task) ==
  \/ task.pc = "done"
  \/ task.kind \in {"leaf", "glob"} /\ task.pc = "wait"
       /\ \A j \in DOMAIN task.sub : task.sub[j].pc = "done"

\* the promise of a task is rejected: its function threw
TaskRejected(task) == task.pc = "failed"

\* the Promise.all of wait() is rejected as soon as one promise is
QueueWaitRejected(q) == \E i \in DOMAIN q : TaskRejected(q[i])

QueueWaitNestedIgnored(q) ==
  \A i \in DOMAIN q : q[i].pc = "done" \/ (q[i].kind = "leaf" /\ q[i].pc = "wait")

\* the Promise.all of wait() is fulfilled once every promise is
QueueWaitFulfilled(q) == \A i \in DOMAIN q : TaskFulfilled(q[i])

\* nothing of the pass is left to run
Quiescent(q) == \A i \in DOMAIN q : TaskFulfilled(q[i]) \/ TaskRejected(q[i])

EscalateNothing(msgs, isStrict) == msgs

\* lines 469-475
Escalate(msgs, isStrict) ==
  [i \in 1..Len(msgs) |->
     IF isStrict /\ msgs[i].type = "warning" THEN [msgs[i] EXCEPT !.type = "error"]
     ELSE msgs[i]]

\* lines 477-489; level "suggestion" stands for every level but 'warning'
\* and 'error'
FilterLevel(msgs, lvl) ==
  CASE lvl = "warning" -> SelectSeq(msgs, LAMBDA m : m.type # "suggestion")
    [] lvl = "error" -> SelectSeq(msgs, LAMBDA m : m.type = "error")
    [] OTHER -> msgs

\* what the caller of core() holds: nothing yet, the resolved value, or the
\* rejection
NoResult == [kind |-> "none", messages |-> <<>>]
Result(msgs) == [kind |-> "result", messages |-> msgs]
Rejection == [kind |-> "rejected", messages |-> <<>>]

\* the messages.push calls of one step of a task, in their order
RECURSIVE PushAll(_, _)
PushAll(msgs, new) ==
  IF new = <<>> THEN msgs ELSE PushAll(Push(msgs, Head(new)), Tail(new))

-----------------------------------------------------------------------------
(* The inputs drawn: file trees, manifests and options. *)

MaxConds == 2    \* keys per condition map drawn for the file checks

CjsText == "module.exports = {}"
EsmText == "export default 1"
FlowText == "// @flow\nmodule.exports = {}"

\* the files beside the manifest of the package root
Sources ==
  << File("/p/a.js", "text", CjsText, JUndef),
     File("/p/e.js", "text", EsmText, JUndef),
     File("/p/c.mjs", "text", CjsText, JUndef),
     File("/p/f.js", "text", FlowText, JUndef),
     File("/p/lib/x.js", "text", EsmText, JUndef),
     File("/p/lib/y.js", "text", EsmText, JUndef) >>

Tree == <<File("/p/package.json", "root", "", JUndef)>> \o Sources
TreeBadManifest == <<File("/p/package.json", "badjson", "{", JUndef)>> \o Sources
TreeNoManifest == Sources

NotPacked == [given |-> FALSE, files |-> <<>>]
Packed(files) == [given |-> TRUE, files |-> files]

\* a manifest; JUndef leaves a field out
Manifest(type, dependencies, repository, exports, imports) ==
  JMap(SelectSeq(<< KV("name", JStr("p")),
                    KV("files", JArr(<<JStr("lib")>>)),
                    KV("license", JStr("MIT")),
                    KV("type", type),
                    KV("dependencies", dependencies),
                    KV("repository", repository),
                    KV("exports", exports),
                    KV("imports", imports) >>,
                 LAMBDA kv : kv.v # JUndef))

\* the condition maps of 1..maxn distinct keys with values of a set
MapsOver(keys, values, maxn) ==
  UNION {{JMap([i \in 1..n |-> KV(ks[i], vs[i])]) :
            ks \in {s \in [1..n -> keys] : \A i, j \in 1..n : i # j => s[i] # s[j]},
            vs \in [1..n -> values]} :
         n \in 1..maxn}

\* manifests of whole passes: a field that is fine, one that yields a
\* diagnostic, one whose check throws
PassDependencies ==
  {JUndef, JMap(<<KV("a", JStr("file:../a"))>>), JMap(<<KV("a", JNum(1))>>)}
PassRepository == {JUndef, JStr("https://github.com/u/r"), JNull}
PassExports ==
  { JStr("./a.js"),
    JMap(<<KV("import", JStr("./e.js")), KV("require", JStr("./missing.js"))>>),
    JMap(<<KV("./lib/*", JStr("./lib/*.js")), KV("./m", JStr("./missing.js"))>>),
    JMap(<<KV("./lib/", JStr("./lib/"))>>),
    JMap(<<KV("import", JNum(5))>>) }
PassImports == {JUndef, JMap(<<KV("foo", JStr("./a.js"))>>)}

PassManifests ==
  {Manifest(JUndef, d, r, e, i) :
     d \in PassDependencies, r \in PassRepository, e \in PassExports, i \in PassImports}

Levels == {"suggestion", "warning", "error"}

\* manifests of the structural crawl
CrawlKeyNames == {"types", "types@5", "import", "require", "module", "default"}
CrawlValues ==
  { JStr("./a.js"),
    JStr("./a.ts"),
    JMap(<<KV("types", JStr("./a.d.ts")), KV("default", JStr("./a.js"))>>),
    JMap(<<KV("default", JStr("./a.js")), KV("require", JStr("./a.js")),
           KV("module", JStr("./e.js"))>>),
    JMap(<<KV("import", JStr("./a.ts"))>>) }
ImportsKeyNames == {"#a", "foo", "//b", "imports"}
ImportsValues ==
  { JStr("./a.js"),
    JStr("pkg"),
    JMap(<<KV("node", JStr("./a.js")), KV("default", JStr("./e.js"))>>),
    JMap(<<KV("default", JStr("./a.js")), KV("require", JStr("./a.js")),
           KV("module", JStr("./e.js"))>>) }

\* manifests of the file checks: condition maps whose values are files with
\* an ESM, CJS or Flow content, or one more condition around one
FileKeyNames == {"node", "module", "browser", "import"}
FileLeaves == {JStr("./e.js"), JStr("./c.mjs"), JStr("./f.js")}
FileValues == FileLeaves \cup MapsOver(FileKeyNames, FileLeaves, 1)

-----------------------------------------------------------------------------
(* The state after construction: core() has been called and has not run yet. *)

InitRun ==
  /\ corePc = "start"
  /\ messages = <<>>
  /\ emitted = <<>>
  /\ queue = <<>>
  /\ returned = NoResult
  /\ firstResult = NoResult
  /\ run = 1

\* the state before the first call of core() on the package at /p
InitPass ==
  /\ InitRun
  /\ root = "/p"

Init ==
  /\ InitPass
  /\ \/ vfs = Tree /\ pkg \in PassManifests
     \/ vfs \in {TreeBadManifest, TreeNoManifest} /\ pkg = JUndef
  /\ packed = NotPacked
  /\ level \in Levels
  /\ strict \in BOOLEAN

InitCrawl ==
  /\ InitPass
  /\ vfs = Tree
  /\ \/ \E e \in MapsOver(CrawlKeyNames, CrawlValues, MaxKeys) :
          pkg = Manifest(JUndef, JUndef, JUndef, e, JUndef)
     \/ \E i \in MapsOver(ImportsKeyNames, ImportsValues, MaxKeys) :
          pkg = Manifest(JUndef, JUndef, JUndef, JStr("./a.js"), i)
  /\ packed = NotPacked
  /\ level = "suggestion"
  /\ strict = FALSE

InitFiles ==
  /\ InitPass
  /\ vfs = Tree
  /\ \E e \in MapsOver(FileKeyNames, FileValues, MaxConds) :
       pkg = Manifest(JUndef, JUndef, JUndef, e, JUndef)
  /\ packed \in {NotPacked, Packed(<<"/p/package.json", "/p/e.js", "/p/c.mjs">>)}
  /\ level = "suggestion"
  /\ strict = FALSE

-----------------------------------------------------------------------------
(* The steps of a pass. A step is what runs between two awaits.              *)

\* core() from its call to `await promiseQueue.wait()` (lines 62-467): reading
\* the manifest awaits, but nothing else of the pass exists to run meanwhile.
\* A throw on the way rejects the promise core() returned; the tasks pushed
\* before it keep running.
CoreStarted(rootPkgContent, parsed, checks) ==
  IF rootPkgContent.found /\ parsed
  THEN [msgs |-> PushAll(rootPkgContent.msgs, checks.msgs),
        tasks |-> checks.tasks,
        pc |-> IF checks.threw THEN "rejected" ELSE "waiting"]
  ELSE [msgs |-> rootPkgContent.msgs, tasks |-> <<>>, pc |-> "rejected"]

CoreStartedAs(started) ==
  /\ messages' = started.msgs
  /\ emitted' = started.msgs
  /\ queue' = started.tasks
  /\ corePc' = started.pc
  /\ returned' = IF started.pc = "rejected" THEN Rejection ELSE NoResult

CoreSchedule ==
  /\ corePc = "start"
  /\ CoreStartedAs(
       CoreStarted(readFile(vfs, packed, pathJoin(pkgDir, "package.json"), PkgPath(<<>>), <<>>),
                   IsFile(vfs, pathJoin(pkgDir, "package.json"))
                     /\ FileAt(vfs, pathJoin(pkgDir, "package.json")).kind = "root",
                   ScheduleChecks(pkg)))
  /\ UNCHANGED <<pkg, level, strict, run, firstResult, vfs, packed, root>>

\* a step of task i pushes its messages
Pushed(new) ==
  /\ messages' = PushAll(messages, new)
  /\ emitted' = PushAll(emitted, new)

LeafResumed(i, r) ==
  /\ queue' = [queue EXCEPT ![i].pc = "wait", ![i].sub = r.sub]
  /\ Pushed(r.msgs)

\* a leaf task resumes with the files of getExportsFiles (lines 741-878)
LeafFiles(i) ==
  /\ corePc # "start"
  /\ queue[i].kind = "leaf" /\ queue[i].pc = "files"
  /\ LeafResumed(i, LeafAfterFiles(vfs, packed, pkg, queue[i]))
  /\ UNCHANGED <<pkg, level, strict, corePc, returned, run, firstResult, vfs, packed, root>>

FileWasRead(i, j, r) ==
  /\ queue' = [queue EXCEPT ![i].sub[j].pc =
                 IF queue[i].sub[j].mode = "lint" /\ r.found THEN "check" ELSE "done"]
  /\ Pushed(r.msgs)

\* a task of a nested queue resumes with the answer of readFile (lines 801, 807)
FileRead(i, j) ==
  /\ corePc # "start"
  /\ queue[i].kind = "leaf" /\ queue[i].pc = "wait"
  /\ queue[i].sub[j].pc = "read"
  /\ FileWasRead(i, j, readFile(vfs, packed, queue[i].sub[j].filePath,
                                PkgPath(queue[i].path), <<>>))
  /\ UNCHANGED <<pkg, level, strict, corePc, returned, run, firstResult, vfs, packed, root>>

\* a linting task checks the content it has read (lines 808-874)
FileCheck(i, j) ==
  /\ corePc # "start"
  /\ queue[i].kind = "leaf" /\ queue[i].pc = "wait"
  /\ queue[i].sub[j].pc = "check"
  /\ queue' = [queue EXCEPT ![i].sub[j].pc = "done"]
  /\ Pushed(FileCheckMsgs(vfs, pkg, queue[i], queue[i].sub[j].filePath))
  /\ UNCHANGED <<pkg, level, strict, corePc, returned, run, firstResult, vfs, packed, root>>

\* the task of checkTypesExported resumes with the answer of
\* findTypesFilePath (line 1048): the package ships no types, the test of
\* line 1054 is false and the task ends
TypesFind(i) ==
  /\ corePc # "start"
  /\ queue[i].kind = "types" /\ queue[i].pc = "find"
  /\ findTypesFilePath(vfs, packed, pkg, queue[i].rootKey) = ""
  /\ queue' = [queue EXCEPT ![i].pc = "done"]
  /\ UNCHANGED <<pkg, level, strict, corePc, messages, emitted, returned, run,
                 firstResult, vfs, packed, root>>

\* the task of the implicit index.js resumes with the answer of isPathExist
\* (line 166)
FieldExist(i) ==
  /\ corePc # "start"
  /\ queue[i].kind = "field" /\ queue[i].pc = "exist"
  /\ queue' = [queue EXCEPT ![i].pc =
                 IF isPathExist(vfs, FieldFilePath(queue[i])) THEN "read" ELSE "done"]
  /\ UNCHANGED <<pkg, level, strict, corePc, messages, emitted, returned, run,
                 firstResult, vfs, packed, root>>

FieldWasRead(i, r, after) ==
  /\ queue' = [queue EXCEPT ![i].pc = IF r.found THEN after.pc ELSE "done",
                            ![i].read = IF r.found THEN r.path ELSE ""]
  /\ Pushed(r.msgs \o (IF r.found THEN after.msgs ELSE <<>>))

FieldReadAs(i, r) ==
  FieldWasRead(i, r, FieldAfterRead(pkg, queue[i],
                                    IF r.found THEN FileAt(vfs, r.path).text ELSE ""))

\* the task of a field resumes with the answer of readFile (lines 167, 200,
\* 250, 332 and 1242) and runs to its next await or to its end
FieldRead(i) ==
  /\ corePc # "start"
  /\ queue[i].kind = "field" /\ queue[i].pc = "read"
  /\ FieldReadAs(i, readFile(vfs, packed, FieldFilePath(queue[i]), FieldPkgPath(queue[i]),
                             FieldExtensions(queue[i])))
  /\ UNCHANGED <<pkg, level, strict, corePc, returned, run, firstResult, vfs, packed, root>>

\* the task of a field resumes with the answer of getFilePathFormat (lines
\* 171, 208 and 1261)
FieldFormat(i) ==
  /\ corePc # "start"
  /\ queue[i].kind = "field" /\ queue[i].pc = "format"
  /\ queue' = [queue EXCEPT ![i].pc = "done"]
  /\ Pushed(FieldFormatMsgs(vfs, pkg, queue[i]))
  /\ UNCHANGED <<pkg, level, strict, corePc, returned, run, firstResult, vfs, packed, root>>

\* the task of a package without exports resumes with the files of
\* exportsGlob (lines 387-451)
GlobFiles(i) ==
  /\ corePc # "start"
  /\ queue[i].kind = "glob" /\ queue[i].pc = "files"
  /\ LeafResumed(i, PushGlobTasks(exportsGlob(vfs, pathJoin(pkgDir, "./*"), packed, "", JUndef),
                                  1, [msgs |-> <<>>, sub |-> <<>>]))
  /\ UNCHANGED <<pkg, level, strict, corePc, returned, run, firstResult, vfs, packed, root>>

\* a task of its nested queue resumes with the answer of readFile (line 405)
GlobFileRead(i, j) ==
  /\ corePc # "start"
  /\ queue[i].kind = "glob" /\ queue[i].pc = "wait"
  /\ queue[i].sub[j].pc = "read"
  /\ FileWasRead(i, j, readFile(vfs, packed, queue[i].sub[j].filePath, PkgPath(<<>>), <<>>))
  /\ UNCHANGED <<pkg, level, strict, corePc, returned, run, firstResult, vfs, packed, root>>

\* and checks the content it has read (lines 406-447)
GlobFileCheck(i, j) ==
  /\ corePc # "start"
  /\ queue[i].kind = "glob" /\ queue[i].pc = "wait"
  /\ queue[i].sub[j].pc = "check"
  /\ queue' = [queue EXCEPT ![i].sub[j].pc = "done"]
  /\ Pushed(GlobCheckMsgs(vfs, pkg, queue[i].sub[j].filePath))
  /\ UNCHANGED <<pkg, level, strict, corePc, returned, run, firstResult, vfs, packed, root>>

\* the task of checkTypesExported from the next := [k, seen] on
TypesTaskAt(task, typesFilePath, next) ==
  [kind |-> "types", pc |-> IF next.k > TypesRuns THEN "done" ELSE "lint",
   rootKey |-> task.rootKey, typesFilePath |-> typesFilePath,
   k |-> next.k, seen |-> next.seen]

\* the task of checkTypesExported resumes with the answer of
\* findTypesFilePath (line 1048): the package ships types, and the task runs
\* to the first await of line 1099
TypesFound(i) ==
  /\ corePc # "start"
  /\ queue[i].kind = "types" /\ queue[i].pc = "find"
  /\ findTypesFilePath(vfs, packed, pkg, queue[i].rootKey) # ""
  /\ queue' = [queue EXCEPT ![i] =
       TypesTaskAt(queue[i], findTypesFilePath(vfs, packed, pkg, queue[i].rootKey),
                   TypesAdvance(ExportsRootValue(getPublishedField(pkg, "exports").value,
                                                 queue[i].rootKey),
                                ExportsRootPath(getPublishedField(pkg, "exports").path,
                                                queue[i].rootKey),
                                1, {}))]
  /\ UNCHANGED <<pkg, level, strict, corePc, messages, emitted, returned, run,
                 firstResult, vfs, packed, root>>

\* it resumes with the answer of isPathExist (line 1099), ends the run it is
\* in (lines 1101-1201) and goes on to the next await of line 1099
TypesLint(i) ==
  /\ corePc # "start"
  /\ queue[i].kind = "types" /\ queue[i].pc = "lint"
  /\ Pushed(TypesRunMsgs(vfs, pkg,
                         TypesRun(ExportsRootValue(getPublishedField(pkg, "exports").value,
                                                   queue[i].rootKey),
                                  ExportsRootPath(getPublishedField(pkg, "exports").path,
                                                  queue[i].rootKey),
                                  queue[i].k),
                         queue[i].typesFilePath))
  /\ queue' = [queue EXCEPT ![i] =
       TypesTaskAt(queue[i], queue[i].typesFilePath,
                   TypesAdvance(ExportsRootValue(getPublishedField(pkg, "exports").value,
                                                 queue[i].rootKey),
                                ExportsRootPath(getPublishedField(pkg, "exports").path,
                                                queue[i].rootKey),
                                queue[i].k + 1, queue[i].seen))]
  /\ UNCHANGED <<pkg, level, strict, corePc, returned, run, firstResult, vfs, packed, root>>

\* promiseQueue.wait() is fulfilled: lines 469-489
CoreReturn ==
  /\ corePc = "waiting"
  /\ QueueWaitFulfilled(queue)
  /\ messages' = Escalate(messages, strict)
  /\ returned' = Result(FilterLevel(messages', level))
  /\ corePc' = "returned"
  /\ UNCHANGED <<pkg, level, strict, queue, emitted, run, firstResult, vfs, packed, root>>

\* promiseQueue.wait() is rejected: core() rejects at line 467
CoreReject ==
  /\ corePc = "waiting"
  /\ QueueWaitRejected(queue)
  /\ returned' = Rejection
  /\ corePc' = "rejected"
  /\ UNCHANGED <<pkg, level, strict, messages, queue, emitted, run, firstResult,
                 vfs, packed, root>>

\* the caller keeps the outcome and calls core() again on the same package
Rerun ==
  /\ corePc \in {"returned", "rejected"}
  /\ Quiescent(queue)
  /\ run < MaxRuns
  /\ run' = run + 1
  /\ firstResult' = IF run = 1 THEN returned ELSE firstResult
  /\ corePc' = "start"
  /\ messages' = <<>>
  /\ emitted' = <<>>
  /\ queue' = <<>>
  /\ returned' = NoResult
  /\ UNCHANGED <<pkg, level, strict, vfs, packed, root>>

\* the nested queue of a task
SubTasks(task) == IF task.kind = "leaf" THEN DOMAIN task.sub ELSE {}

\* a task of the pass that awaits takes its next step
TaskStep ==
  \/ \E i \in DOMAIN queue : LeafFiles(i)
  \/ \E i \in DOMAIN queue : TypesFind(i)
  \/ \E i \in DOMAIN queue : \E j \in SubTasks(queue[i]) : FileRead(i, j)
  \/ \E i \in DOMAIN queue : \E j \in SubTasks(queue[i]) : FileCheck(i, j)

\* the nested queue of the task of a package without exports
GlobSubTasks(task) == IF task.kind = "glob" THEN DOMAIN task.sub ELSE {}

\* a task of a manifest field takes its next step
FieldStep ==
  \/ \E i \in DOMAIN queue : FieldExist(i)
  \/ \E i \in DOMAIN queue : FieldRead(i)
  \/ \E i \in DOMAIN queue : FieldFormat(i)

\* the task of a package without exports, or one of its nested queue, takes
\* its next step
GlobStep ==
  \/ \E i \in DOMAIN queue : GlobFiles(i)
  \/ \E i \in DOMAIN queue : \E j \in GlobSubTasks(queue[i]) : GlobFileRead(i, j)
  \/ \E i \in DOMAIN queue : \E j \in GlobSubTasks(queue[i]) : GlobFileCheck(i, j)

\* the task of checkTypesExported of a package that ships types takes its
\* next step
TypesStep ==
  \/ \E i \in DOMAIN queue : TypesFound(i)
  \/ \E i \in DOMAIN queue : TypesLint(i)

\* the task of a field of knownFields resumes
KnownFieldStep == \E i \in DOMAIN queue : FieldRead(i)

Next == CoreSchedule \/ TaskStep \/ CoreReturn \/ CoreReject \/ Rerun

Spec == Init /\ [][Next]_vars

\* the synchronous crawl alone
NextCrawl == CoreSchedule

SpecCrawl == InitCrawl /\ [][NextCrawl]_vars

\* one pass over a package whose checks do not throw
NextFiles == CoreSchedule \/ TaskStep \/ CoreReturn

SpecFiles == InitFiles /\ [][NextFiles]_vars

-----------------------------------------------------------------------------
(* Vocabulary of the properties. *)

\* every ConditionMap of a condition tree, with the path that leads to it
RECURSIVE MapsIn(_, _)
MapsIn(value, path) ==
  IF value.t = "map"
  THEN {[map |-> value, path |-> path]}
         \cup UNION {MapsIn(value.e[i].v, Append(path, value.e[i].k)) : i \in DOMAIN value.e}
  ELSE IF value.t = "arr"
  THEN UNION {MapsIn(value.e[i], Append(path, IndexStr(i - 1))) : i \in DOMAIN value.e}
  ELSE {}

ConditionMaps ==
  MapsIn(Get(pkg, "exports"), <<"exports">>) \cup MapsIn(Get(pkg, "imports"), <<"imports">>)

\* the place of a key in the declared key order of a map
Position(map, key) == CHOOSE i \in DOMAIN map.e : map.e[i].k = key

\* how many messages of a code the sink holds at a path
Emitted(code, path) ==
  Cardinality({i \in DOMAIN messages : messages[i].code = code /\ messages[i].path = path})

\* the code of the exports or of the imports family
Family(path, suffix) ==
  (IF path[1] = "imports" THEN "IMPORTS_" ELSE "EXPORTS_") \o suffix

\* the synchronous crawl of core() is over
Crawled == corePc # "start"

-----------------------------------------------------------------------------
(* Properties of the checks made at a ConditionMap level. *)

\* C5: every ConditionMap of exports or imports, at any depth, yields
\* *_MODULE_SHOULD_PRECEDE_REQUIRE exactly once, at the path of its `module`
\* key, when it holds both `module` and `require` and `module` is declared
\* after `require`; it yields none otherwise, and no such diagnostic exists at
\* any other path.
C5_ModulePrecedesRequire ==
  Crawled =>
    /\ \A c \in ConditionMaps :
         Emitted(Family(c.path, "MODULE_SHOULD_PRECEDE_REQUIRE"), Append(c.path, "module"))
           = IF /\ HasKey(c.map, "module") /\ HasKey(c.map, "require")
                /\ Position(c.map, "module") > Position(c.map, "require")
             THEN 1 ELSE 0
    /\ \A i \in DOMAIN messages :
         messages[i].code \in {"EXPORTS_MODULE_SHOULD_PRECEDE_REQUIRE",
                               "IMPORTS_MODULE_SHOULD_PRECEDE_REQUIRE"}
           => \E c \in ConditionMaps :
                /\ messages[i].path = Append(c.path, "module")
                /\ messages[i].code = Family(c.path, "MODULE_SHOULD_PRECEDE_REQUIRE")

\* a nested map declares `require` before `module` and has been flagged, while
\* a map of the same tree that holds `import` and `require` has not
C5_Witness ==
  /\ Crawled
  /\ \E c \in ConditionMaps :
       /\ Len(c.path) > 1
       /\ HasKey(c.map, "module") /\ HasKey(c.map, "require")
       /\ Position(c.map, "module") > Position(c.map, "require")
       /\ Emitted(Family(c.path, "MODULE_SHOULD_PRECEDE_REQUIRE"), Append(c.path, "module")) = 1
  /\ \E c \in ConditionMaps :
       HasKey(c.map, "import") /\ HasKey(c.map, "require") /\ ~HasKey(c.map, "module")

\* C6: every ConditionMap of exports or imports, at any depth, that holds a
\* `default` key yields *_DEFAULT_SHOULD_BE_LAST, of severity error and at the
\* path of `default`, if and only if `default` is not its last key.
C6_DefaultLast ==
  Crawled =>
    /\ \A c \in ConditionMaps :
         Emitted(Family(c.path, "DEFAULT_SHOULD_BE_LAST"), Append(c.path, "default"))
           = IF HasKey(c.map, "default") /\ Position(c.map, "default") # Len(c.map.e)
             THEN 1 ELSE 0
    /\ \A i \in DOMAIN messages :
         messages[i].code \in {"EXPORTS_DEFAULT_SHOULD_BE_LAST", "IMPORTS_DEFAULT_SHOULD_BE_LAST"}
           => /\ messages[i].type = "error"
              /\ \E c \in ConditionMaps :
                   /\ messages[i].path = Append(c.path, "default")
                   /\ messages[i].code = Family(c.path, "DEFAULT_SHOULD_BE_LAST")

\* one map declares `default` before another key and has been flagged, another
\* declares it last and has not
C6_Witness ==
  /\ Crawled
  /\ \E c \in ConditionMaps :
       /\ HasKey(c.map, "default") /\ Position(c.map, "default") # Len(c.map.e)
       /\ Emitted(Family(c.path, "DEFAULT_SHOULD_BE_LAST"), Append(c.path, "default")) = 1
  /\ \E c \in ConditionMaps :
       /\ HasKey(c.map, "default") /\ Position(c.map, "default") = Len(c.map.e)
       /\ Len(c.map.e) > 1
       /\ Emitted(Family(c.path, "DEFAULT_SHOULD_BE_LAST"), Append(c.path, "default")) = 0

\* a key that precedes `types` is exempt: its name begins with `types`, or its
\* value is, or holds nested, a raw TypeScript source file path
Exempt(kv) ==
  \/ StartsWith(kv.k, "types")
  \/ kv.v.t = "str" /\ isFilePathRawTs(kv.v.s)
  \/ TypeOf(kv.v) = "object" /\ objectHasRawTsNested(kv.v)

\* the maps of exports in which `types` is present and is not first
TypesNotFirstMaps ==
  {c \in ConditionMaps :
     c.path[1] = "exports" /\ HasKey(c.map, "types") /\ Position(c.map, "types") > 1}

\* the keys declared before `types` that are not exempt
NonExemptBefore(map) == {i \in 1..(Position(map, "types") - 1) : ~Exempt(map.e[i])}

\* C7 as stated: in every exports ConditionMap in which `types` is present
\* and not first, EXPORTS_TYPES_SHOULD_BE_FIRST is emitted at the path of
\* `types` unless every preceding key is exempt: one non-exempt preceding key
\* is enough.
C7_OneNonExemptKeyIsEnough ==
  Crawled =>
    \A c \in TypesNotFirstMaps :
      Emitted("EXPORTS_TYPES_SHOULD_BE_FIRST", Append(c.path, "types")) >= 1
        <=> NonExemptBefore(c.map) # {}

\* C7, amended: in every exports ConditionMap in which `types` is present and
\* not first, EXPORTS_TYPES_SHOULD_BE_FIRST is emitted (once, at the path of
\* `types`) if and only if some preceding key is not exempt and no non-exempt
\* preceding key has an object value that holds a `types` key nested at any
\* depth.
C7_TypesFirstUnlessNestedTypes ==
  Crawled =>
    \A c \in TypesNotFirstMaps :
      Emitted("EXPORTS_TYPES_SHOULD_BE_FIRST", Append(c.path, "types"))
        = IF /\ NonExemptBefore(c.map) # {}
             /\ \A i \in NonExemptBefore(c.map) :
                  ~(TypeOf(c.map.e[i].v) = "object" /\ objectHasKeyNested(c.map.e[i].v, "types"))
          THEN 1 ELSE 0

\* `types` follows a non-exempt key whose value holds a nested `types`, and no
\* diagnostic was emitted
C7_Witness ==
  /\ Crawled
  /\ \E c \in TypesNotFirstMaps :
       /\ \E i \in NonExemptBefore(c.map) : objectHasKeyNested(c.map.e[i].v, "types")
       /\ Emitted("EXPORTS_TYPES_SHOULD_BE_FIRST", Append(c.path, "types")) = 0

\* the maps of an imports context
ImportsMaps == {c \in ConditionMaps : c.path[1] = "imports"}

\* the suggested key of the IMPORTS_KEY_INVALID messages at a path
SuggestedKeys(path) ==
  {messages[i].args.suggestKey :
     i \in {j \in DOMAIN messages :
              messages[j].code = "IMPORTS_KEY_INVALID" /\ messages[j].path = path}}

\* C8 as stated: in an imports context every key of every ConditionMap level
\* that does not start with '#' yields exactly one IMPORTS_KEY_INVALID at its
\* path, and the keys that start with '#' yield none.
C8_EveryLevelKeyChecked ==
  Crawled =>
    \A c \in ImportsMaps : \A i \in DOMAIN c.map.e :
      Emitted("IMPORTS_KEY_INVALID", Append(c.path, c.map.e[i].k))
        = IF StartsWith(c.map.e[i].k, "#") THEN 0 ELSE 1

\* C8, amended: in an imports context the keys that are checked are those of
\* the maps whose path ends with `imports`: the imports field itself and a
\* map directly under a key named `imports`. Each such key that does not start
\* with '#' yields exactly one IMPORTS_KEY_INVALID at its path, suggesting '#'
\* followed by the key without its leading slashes; every other key yields
\* none.
C8_FirstLevelKeyChecked ==
  Crawled =>
    \A c \in ImportsMaps : \A i \in DOMAIN c.map.e :
      LET key == c.map.e[i].k
          checked == c.path[Len(c.path)] = "imports" /\ ~StartsWith(key, "#")
      IN  /\ Emitted("IMPORTS_KEY_INVALID", Append(c.path, key)) = IF checked THEN 1 ELSE 0
          /\ checked => SuggestedKeys(Append(c.path, key)) = {"#" \o StripLeadingSlashes(key)}
          /\ checked /\ key = "foo" => SuggestedKeys(Append(c.path, key)) = {"#foo"}
          /\ checked /\ key = "//b" => SuggestedKeys(Append(c.path, key)) = {"#b"}

\* the imports field holds a key without '#' that was flagged, and under a key
\* with '#' a map whose condition keys were not
C8_Witness ==
  /\ Crawled
  /\ Emitted("IMPORTS_KEY_INVALID", <<"imports", "//b">>) = 1
  /\ \E c \in ImportsMaps :
       /\ Len(c.path) = 2 /\ c.path[2] = "#a"
       /\ HasKey(c.map, "node")
       /\ Emitted("IMPORTS_KEY_INVALID", Append(c.path, "node")) = 0

-----------------------------------------------------------------------------
(* Properties of a whole pass. *)

\* nothing of a task is left to run, and it did not throw
Ended(task) ==
  /\ task.pc \notin {"files", "find", "failed"}
  /\ task.kind = "leaf" => \A j \in DOMAIN task.sub : task.sub[j].pc = "done"

\* C1: core() resolves only once every task of the promise queue, and every
\* task of the nested per-file queues, has run to its end; from then on no
\* diagnostic is added to the collection it handed over; and a pass whose
\* promise is rejected hands over no collection at all.
C1_ResultAfterAllTasks ==
  /\ [](corePc = "returned" => \A i \in DOMAIN queue : Ended(queue[i]))
  /\ [](returned.kind = "result" <=> corePc = "returned")
  /\ [][corePc = "returned" /\ corePc' = "returned"
          => messages' = messages /\ returned' = returned]_vars

\* core() has returned the diagnostics of a leaf whose nested queue held two
\* file tasks, next to those of another leaf
C1_Witness ==
  /\ corePc = "returned"
  /\ \E i \in DOMAIN queue : queue[i].kind = "leaf" /\ Len(queue[i].sub) = 2
  /\ \E i, j \in DOMAIN returned.messages :
       /\ returned.messages[i].code = "FILE_INVALID_FORMAT"
       /\ returned.messages[j].code = "FILE_DOES_NOT_EXIST"

\* the severity of a diagnostic after escalation
Escalated(m) ==
  [m EXCEPT !.type = IF strict /\ m.type = "warning" THEN "error" ELSE m.type]

\* a severity meets the level
Meets(type) ==
  CASE level = "error" -> type = "error"
    [] level = "warning" -> type \in {"error", "warning"}
    [] OTHER -> TRUE

\* C2: until every check has finished the diagnostics keep the severity they
\* were pushed with; the messages returned are then, in the order they were
\* pushed, exactly the diagnostics whose severity after escalation (warning
\* becomes error under strict) meets the level. So under strict no returned
\* message is a warning, and under strict with level 'error' every diagnostic
\* pushed as a warning or an error is returned.
C2_StrictThenLevel ==
  /\ corePc = "waiting" => messages = emitted
  /\ corePc = "returned" =>
       /\ messages = [i \in DOMAIN emitted |-> Escalated(emitted[i])]
       /\ returned.messages = SelectSeq(messages, LAMBDA m : Meets(m.type))
       /\ strict => \A i \in DOMAIN returned.messages : returned.messages[i].type # "warning"
       /\ strict /\ level = "error" =>
            Len(returned.messages)
              = Cardinality({i \in DOMAIN emitted : emitted[i].type \in {"warning", "error"}})

\* a strict pass of level 'error' has returned, as an error, a diagnostic
\* pushed as a warning, and has left out a suggestion
C2_Witness ==
  /\ corePc = "returned" /\ strict /\ level = "error"
  /\ \E i \in DOMAIN emitted : emitted[i].type = "suggestion"
  /\ \E i \in DOMAIN emitted :
       /\ emitted[i].type = "warning"
       /\ \E j \in DOMAIN returned.messages :
            returned.messages[j] = [emitted[i] EXCEPT !.type = "error"]

\* how often a message occurs in a collection
Occurrences(msgs, m) == Cardinality({i \in DOMAIN msgs : msgs[i] = m})

\* two collections hold the same messages, each as often
SameMessages(a, b) ==
  \A m \in {a[i] : i \in DOMAIN a} \cup {b[i] : i \in DOMAIN b} :
    Occurrences(a, m) = Occurrences(b, m)

\* C3: a run of core() on the same manifest, file tree and options ends as the
\* first one did, whatever the order in which the tasks of either run took
\* their steps: rejected if it was rejected, and otherwise with the same
\* messages, each as often.
C3_SameMessagesEveryRun ==
  run > 1 /\ corePc \in {"returned", "rejected"} =>
    /\ returned.kind = firstResult.kind
    /\ SameMessages(returned.messages, firstResult.messages)

\* the second run has returned the messages of the first in another order
C3_Witness ==
  /\ run > 1 /\ corePc = "returned"
  /\ Len(returned.messages) >= 3
  /\ returned.messages # firstResult.messages

\* the manifest at the package root can be read and parses
ManifestLoads ==
  /\ IsFile(vfs, pathJoin(pkgDir, "package.json"))
  /\ FileAt(vfs, pathJoin(pkgDir, "package.json")).kind = "root"

\* C4 as stated: core() fails only when no manifest can be loaded at the
\* package root, before any check has run; a failure inside one check never
\* keeps the diagnostics of the other checks from being returned.
C4_OnlyMissingManifestIsFatal ==
  corePc = "rejected" => ~ManifestLoads /\ queue = <<>>

-----------------------------------------------------------------------------
(* Properties of the file checks. *)

\* a leaf is reached through a key declared after a `node` key, in the map
\* that holds the leaf or in one above it: keys is the path from value down
RECURSIVE ReachedAfterNode(_, _)
ReachedAfterNode(value, keys) ==
  /\ keys # <<>>
  /\ \/ /\ value.t = "map"
        /\ HasKey(value, "node") /\ HasKey(value, Head(keys))
        /\ Position(value, "node") < Position(value, Head(keys))
     \/ ReachedAfterNode(Get(value, Head(keys)), Tail(keys))

\* the leaf at a path of the manifest is reached after a `node` key
AfterNode(path) == ReachedAfterNode(Get(pkg, path[1]), Tail(path))

FormatCodes == {"FILE_INVALID_FORMAT", "FILE_INVALID_EXPLICIT_FORMAT"}

\* C9: no FILE_INVALID_FORMAT or FILE_INVALID_EXPLICIT_FORMAT is ever emitted
\* for a leaf reached through a key declared after a `node` key, whether that
\* key is in the map that holds the leaf or in a map any number of levels
\* above it.
C9_NoFormatCheckAfterNode ==
  \A i \in DOMAIN messages :
    messages[i].code \in FormatCodes => ~AfterNode(messages[i].path)

\* the pass has returned; a leaf two levels below a map whose `node` key
\* precedes it resolves to an ESM file with a .js extension in a CommonJS
\* package, its file has been checked, and no format diagnostic is at its path
C9_Witness ==
  /\ corePc = "returned"
  /\ \E i \in DOMAIN queue :
       /\ queue[i].kind = "leaf" /\ queue[i].value = "./e.js"
       /\ Len(queue[i].path) = 3
       /\ HasKey(Get(pkg, "exports"), "node")
       /\ Position(Get(pkg, "exports"), "node") < Position(Get(pkg, "exports"), queue[i].path[2])
       /\ ~SeqIncludes(queue[i].path, "module") /\ ~SeqIncludes(queue[i].path, "browser")
       /\ Len(queue[i].sub) = 1 /\ queue[i].sub[1].pc = "done"
       /\ \A c \in FormatCodes : Emitted(c, queue[i].path) = 0

\* the leaves whose path holds the `module` condition key
ModuleLeaves ==
  {i \in DOMAIN queue : queue[i].kind = "leaf" /\ SeqIncludes(queue[i].path, "module")}

\* the files a leaf resolved to
FilesOf(task) ==
  getExportsFiles(vfs, packed, task.value, ExportsKeyOf(task.path), Get(pkg, "exports"))

\* C10 as stated: a leaf whose path holds `module` gets no format diagnostic,
\* and gets *_MODULE_SHOULD_BE_ESM at its path exactly when the content of a
\* file it resolves to classifies as CJS, also after a `node` key or under
\* `browser`.
C10_ModuleFileMustBeEsm ==
  corePc = "returned" =>
    \A i \in ModuleLeaves :
      /\ \A c \in FormatCodes : Emitted(c, queue[i].path) = 0
      /\ Emitted(Family(queue[i].path, "MODULE_SHOULD_BE_ESM"), queue[i].path) >= 1
           <=> \E k \in DOMAIN FilesOf(queue[i]) :
                 /\ IsFile(vfs, FilesOf(queue[i])[k])
                 /\ getCodeFormat(FileAt(vfs, FilesOf(queue[i])[k]).text) = "CJS"

\* C10, amended: a leaf whose path holds `module` gets no format diagnostic,
\* and gets one *_MODULE_SHOULD_BE_ESM error at its path for each file it
\* resolves to that can be read, has a lintable extension and no invalid JSX
\* one, carries no Flow annotation, and whose content classifies as CJS, also
\* after a `node` key or under `browser`.
C10_LintableModuleFileMustBeEsm ==
  corePc = "returned" =>
    \A i \in ModuleLeaves :
      /\ \A c \in FormatCodes : Emitted(c, queue[i].path) = 0
      /\ Emitted(Family(queue[i].path, "MODULE_SHOULD_BE_ESM"), queue[i].path)
           = Cardinality({k \in DOMAIN FilesOf(queue[i]) :
                LET filePath == FilesOf(queue[i])[k]
                IN  /\ IsFile(vfs, filePath)
                    /\ \E ext \in {".js", ".mjs", ".cjs"} : EndsWith(filePath, ext)
                    /\ MatchedJsxExtension(filePath) = ""
                    /\ isFileContentLintable(FileAt(vfs, filePath).text)
                    /\ getCodeFormat(FileAt(vfs, filePath).text) = "CJS"})
      /\ \A k \in DOMAIN messages :
           /\ messages[k].path = queue[i].path
           /\ messages[k].code = Family(queue[i].path, "MODULE_SHOULD_BE_ESM")
           => messages[k].type = "error"

\* the pass has returned: a `module` leaf under `browser`, in a map declared
\* after `node`, resolves to a CJS file with an explicit .mjs extension; it
\* was flagged as not being ESM and got no format diagnostic
C10_Witness ==
  /\ corePc = "returned"
  /\ \E i \in ModuleLeaves :
       /\ AfterNode(queue[i].path)
       /\ SeqIncludes(queue[i].path, "browser")
       /\ queue[i].value = "./c.mjs"
       /\ Len(queue[i].sub) = 1 /\ queue[i].sub[1].pc = "done"
       /\ Emitted("EXPORTS_MODULE_SHOULD_BE_ESM", queue[i].path) = 1
       /\ \A c \in FormatCodes : Emitted(c, queue[i].path) = 0

-----------------------------------------------------------------------------
(* The expected format of a file: packages with manifests in the           *)
(* directories between a file and the package root.                        *)

\* the manifest a directory may hold: none, one without `type`, one with
\* `type`, one that does not parse
NestedManifestKinds == {"none", "untyped", "module", "commonjs", "bad"}

\* the files a directory holds for its manifest: none or one
NestedManifest(dir, kind) ==
  CASE kind = "none" -> <<>>
    [] kind = "untyped" ->
         <<File(dir \o "/package.json", "json", "", JMap(<<KV("name", JStr("n"))>>))>>
    [] kind = "bad" -> <<File(dir \o "/package.json", "badjson", "{", JUndef)>>
    [] OTHER ->
         <<File(dir \o "/package.json", "json", "", JMap(<<KV("type", JStr(kind))>>))>>

\* a package with two nested directories and a file of each extension in
\* the inner one
NestedTree(subKind, innerKind, text) ==
  <<File("/p/package.json", "root", "", JUndef)>>
    \o NestedManifest("/p/sub", subKind)
    \o NestedManifest("/p/sub/d", innerKind)
    \o << File("/p/sub/d/x.js", "text", text, JUndef),
          File("/p/sub/d/y.mjs", "text", CjsText, JUndef),
          File("/p/sub/d/z.cjs", "text", EsmText, JUndef) >>

NestedExports ==
  JMap(<< KV(".", JStr("./sub/d/x.js")),
          KV("./y", JStr("./sub/d/y.mjs")),
          KV("./z", JStr("./sub/d/z.cjs")) >>)

InitNearest ==
  /\ InitPass
  /\ \E subKind \in NestedManifestKinds, innerKind \in NestedManifestKinds,
        text \in {EsmText, CjsText} :
       vfs = NestedTree(subKind, innerKind, text)
  /\ \E type \in {JUndef, JStr("module"), JStr("commonjs")} :
       pkg = Manifest(type, JUndef, JUndef, NestedExports, JUndef)
  /\ packed = NotPacked
  /\ level = "suggestion"
  /\ strict = FALSE

\* one pass over a package with nested manifests
SpecNearest == InitNearest /\ [][NextFiles]_vars

\* the directories above a file, nearest first, up to the root of the tree
RECURSIVE DirsAbove(_)
DirsAbove(path) ==
  IF getDirName(path) = path THEN <<>>
  ELSE <<getDirName(path)>> \o DirsAbove(getDirName(path))

\* the parsed manifest of a directory
ManifestOf(dir) ==
  IF FileAt(vfs, dir \o "/package.json").kind = "root" THEN pkg
  ELSE FileAt(vfs, dir \o "/package.json").json

\* a directory holds a manifest that parses
HasManifest(dir) ==
  /\ IsFile(vfs, dir \o "/package.json")
  /\ FileAt(vfs, dir \o "/package.json").kind \in {"root", "json"}

\* ESM when the first directory of dirs that passes the test holds a manifest
\* of `type` "module", CJS otherwise
FormatByFirst(dirs, Decides(_)) ==
  LET hits == {i \in DOMAIN dirs : Decides(dirs[i])}
  IN  IF hits = {} THEN "CJS"
      ELSE IF Get(ManifestOf(dirs[CHOOSE i \in hits : \A j \in hits : i <= j]), "type")
                = JStr("module")
      THEN "ESM" ELSE "CJS"

\* the files of the tree without an explicit format extension
ImplicitFormatFiles ==
  {vfs[i].path : i \in {j \in DOMAIN vfs : EndsWith(vfs[j].path, ".js")}}

\* the format diagnostics of the pass at a path
FormatMessagesAt(path) ==
  {messages[i] : i \in {j \in DOMAIN messages :
                          messages[j].code \in FormatCodes /\ messages[j].path = path}}

\* C12 as stated: the expected format of a file without an explicit format
\* extension is decided by the nearest ancestor manifest that has a `type`
\* field; manifests without one, and malformed ones, are passed over; "module"
\* gives ESM and anything else, or no such manifest, gives CJS.
C12_NearestTypedManifestDecides ==
  \A f \in ImplicitFormatFiles :
    /\ getFilePathFormat(vfs, pkg, f)
         = FormatByFirst(DirsAbove(f),
                         LAMBDA dir : HasManifest(dir) /\ HasKey(ManifestOf(dir), "type"))
    /\ \A m \in FormatMessagesAt(<<"exports", ".">>) :
         m.args.expectFormat
           = FormatByFirst(DirsAbove("/p/sub/d/x.js"),
                           LAMBDA dir : HasManifest(dir) /\ HasKey(ManifestOf(dir), "type"))

\* C12, amended: the expected format of a file without an explicit format
\* extension is decided by the nearest ancestor manifest that parses, whether
\* or not it has a `type` field: its `type` "module" gives ESM, anything else,
\* a missing `type` included, gives CJS. Only missing and malformed manifests
\* are passed over; no parsing manifest up to the root gives CJS.
C12_NearestParsingManifestDecides ==
  \A f \in ImplicitFormatFiles :
    /\ getFilePathFormat(vfs, pkg, f) = FormatByFirst(DirsAbove(f), HasManifest)
    /\ \A m \in FormatMessagesAt(<<"exports", ".">>) :
         /\ m.args.expectFormat = FormatByFirst(DirsAbove("/p/sub/d/x.js"), HasManifest)
         /\ m.args.actualFormat # m.args.expectFormat
    /\ corePc = "returned" /\ f = "/p/sub/d/x.js" =>
         (FormatMessagesAt(<<"exports", ".">>) # {}
            <=> getCodeFormat(FileAt(vfs, f).text) # FormatByFirst(DirsAbove(f), HasManifest))

\* the pass has returned: the nearest manifest of an ESM file has no `type`,
\* the one above it says "module", and the file was flagged with expected
\* format CJS
C12_Witness ==
  /\ corePc = "returned"
  /\ HasManifest("/p/sub/d") /\ ~HasKey(ManifestOf("/p/sub/d"), "type")
  /\ HasManifest("/p/sub") /\ Get(ManifestOf("/p/sub"), "type") = JStr("module")
  /\ \E m \in FormatMessagesAt(<<"exports", ".">>) :
       m.args.actualFormat = "ESM" /\ m.args.expectFormat = "CJS"

-----------------------------------------------------------------------------
(* Deprecated trailing-slash subpath mappings.                              *)

SlashKeyNames == {".", "./lib/", "./lib/*", "./none/"}
SlashValues ==
  { JStr("./lib/"),
    JStr("./none/"),
    JMap(<<KV("import", JStr("./lib/"))>>),
    JMap(<<KV("import", JStr("./lib/*"))>>) }
SlashImports ==
  {JUndef, JMap(<<KV("#lib/", JStr("./lib/"))>>), JMap(<<KV("#none/", JStr("./none/"))>>)}

\* a package whose directory lib holds one file
SlashTree ==
  << File("/p/package.json", "root", "", JUndef),
     File("/p/lib/x.js", "text", EsmText, JUndef) >>

InitSlash ==
  /\ InitPass
  /\ vfs = SlashTree
  /\ \E e \in MapsOver(SlashKeyNames, SlashValues, MaxConds), i \in SlashImports :
       pkg = Manifest(JUndef, JUndef, JUndef, e, i)
  /\ packed = NotPacked
  /\ level = "suggestion"
  /\ strict = FALSE

\* one pass over a package, its failure included
NextSlash == CoreSchedule \/ TaskStep \/ CoreReturn \/ CoreReject

SpecSlash == InitSlash /\ [][NextSlash]_vars

\* every Leaf of a condition tree, with the path that leads to it
RECURSIVE LeavesIn(_, _)
LeavesIn(value, path) ==
  IF value.t = "str" THEN {[value |-> value.s, path |-> path]}
  ELSE IF value.t = "map"
  THEN UNION {LeavesIn(value.e[i].v, Append(path, value.e[i].k)) : i \in DOMAIN value.e}
  ELSE IF value.t = "arr"
  THEN UNION {LeavesIn(value.e[i], Append(path, IndexStr(i - 1))) : i \in DOMAIN value.e}
  ELSE {}

Leaves ==
  LeavesIn(Get(pkg, "exports"), <<"exports">>) \cup LeavesIn(Get(pkg, "imports"), <<"imports">>)

\* the leaves whose value ends in '/'
SlashLeaves == {l \in Leaves : EndsWith(l.value, "/")}

\* what the manifest holds at a path, JUndef where the path leads nowhere
RECURSIVE ValueAt(_, _)
ValueAt(value, path) ==
  IF path = <<>> THEN value
  ELSE IF value.t \in {"map", "arr"} THEN ValueAt(Get(value, Head(path)), Tail(path))
  ELSE JUndef

\* the path with '*' appended to each part that ends in '/'
WildcardPath(path) ==
  [i \in DOMAIN path |-> IF EndsWith(path[i], "/") THEN path[i] \o "*" ELSE path[i]]

\* the messages of a code at a path
MessagesAt(code, path) ==
  {messages[i] : i \in {j \in DOMAIN messages :
                          messages[j].code = code /\ messages[j].path = path}}

\* the task of the leaf at a path
TaskOf(path) ==
  queue[CHOOSE i \in DOMAIN queue : queue[i].kind = "leaf" /\ queue[i].path = path]

C16_SlashLeafAtAnyDepth ==
  /\ SlashLeaves # {} => corePc # "rejected"
  /\ corePc = "returned" =>
       \A l \in SlashLeaves :
         /\ Emitted(Family(l.path, "GLOB_NO_DEPRECATED_SUBPATH_MAPPING"), l.path) = 1
         /\ \A m \in MessagesAt(Family(l.path, "GLOB_NO_DEPRECATED_SUBPATH_MAPPING"), l.path) :
              m.type = IF Truthy(ValueAt(pkg, WildcardPath(l.path)))
                       THEN "suggestion" ELSE "error"

-----------------------------------------------------------------------------
(* Leaf values and fallback arrays.                                         *)

ValueLeaves ==
  {JStr(""), JStr("subpath/index.js"), JStr("//abs.js"), JStr("./a.js"), JStr("lib/")}
ValueArrays ==
  { JArr(<<>>),
    JArr(<<JStr("./a.js"), JStr("a.js")>>),
    JArr(<< JStr("a.js"),
            JMap(<< KV("node", JStr("./e.js")),
                    KV("default", JArr(<<JStr("./missing.js")>>)) >>) >>) }
ValueKeyNames == {"node", "import", "default"}
ValueImportsKeyNames == {"#a", "#b"}
ValueImports ==
  { JStr("pkg"), JStr(".foo"), JStr("./a.js"), JStr("lib/"), JStr("./lib/"),
    JArr(<<JStr("x"), JStr("b.js")>>) }

InitValues ==
  /\ InitPass
  /\ vfs = Tree
  /\ \/ \E e \in MapsOver(ValueKeyNames, ValueLeaves \cup ValueArrays, MaxConds) \cup ValueArrays :
          pkg = Manifest(JUndef, JUndef, JUndef, e, JUndef)
     \/ \E i \in MapsOver(ValueImportsKeyNames, ValueImports, MaxConds) :
          pkg = Manifest(JUndef, JUndef, JUndef, JStr("./a.js"), i)
  /\ packed = NotPacked
  /\ level = "suggestion"
  /\ strict = FALSE

\* the synchronous crawl of leaf values and fallback arrays
SpecValues == InitValues /\ [][NextCrawl]_vars

\* an imports leaf that names an external dependency or a built-in module
External(l) == l.path[1] = "imports" /\ ~StartsWith(l.value, ".")

\* the suggested values of the value-invalid diagnostics at a path
SuggestedValues(path) ==
  {m.args.suggestValue : m \in MessagesAt(Family(path, "VALUE_INVALID"), path)}

\* C17 as stated: every Leaf value that does not start with './' yields one
\* value-invalid diagnostic at its path (none for an imports value that maps
\* to an external dependency), suggesting './' followed by the value without
\* its leading slashes; a value that starts with './' yields none.
C17_ValueInvalidSuggestsValue ==
  Crawled =>
    \A l \in Leaves :
      /\ Emitted(Family(l.path, "VALUE_INVALID"), l.path)
           = IF ~External(l) /\ ~StartsWith(l.value, "./") THEN 1 ELSE 0
      /\ SuggestedValues(l.path) \subseteq {"./" \o StripLeadingSlashes(l.value)}

\* C17, amended: as stated, but the value that is tested and suggested is the
\* value as matched, that is with '*' appended when it ends in '/': such a
\* value yields the suggestion './' followed by the rewritten value without
\* its leading slashes.
C17_ValueInvalidSuggestsMatchedValue ==
  Crawled =>
    \A l \in Leaves :
      LET matched == IF EndsWith(l.value, "/") THEN l.value \o "*" ELSE l.value
      IN  /\ Emitted(Family(l.path, "VALUE_INVALID"), l.path)
               = IF ~External(l) /\ ~StartsWith(l.value, "./") THEN 1 ELSE 0
          /\ SuggestedValues(l.path) \subseteq {"./" \o StripLeadingSlashes(matched)}
          /\ \A m \in MessagesAt(Family(l.path, "VALUE_INVALID"), l.path) : m.type = "error"
          /\ l.value = "" => SuggestedValues(l.path) = {"./"}
          /\ l.value = "//abs.js" => SuggestedValues(l.path) = {"./abs.js"}
          /\ l.value = "lib/" /\ ~External(l) => SuggestedValues(l.path) = {"./lib/*"}

\* the crawl is over: an empty value and a value with a trailing slash were
\* flagged in exports
C17_Witness ==
  /\ Crawled
  /\ \E l \in Leaves :
       l.path[1] = "exports" /\ l.value = "" /\ Emitted("EXPORTS_VALUE_INVALID", l.path) = 1
  /\ \E l \in Leaves :
       /\ l.path[1] = "exports" /\ l.value = "lib/"
       /\ SuggestedValues(l.path) = {"./lib/*"}

\* every FallbackArray of a condition tree, with the path that leads to it
RECURSIVE ArraysIn(_, _)
ArraysIn(value, path) ==
  IF value.t = "arr"
  THEN {[arr |-> value, path |-> path]}
         \cup UNION {ArraysIn(value.e[i], Append(path, IndexStr(i - 1))) : i \in DOMAIN value.e}
  ELSE IF value.t = "map"
  THEN UNION {ArraysIn(value.e[i].v, Append(path, value.e[i].k)) : i \in DOMAIN value.e}
  ELSE {}

FallbackArrays ==
  ArraysIn(Get(pkg, "exports"), <<"exports">>) \cup ArraysIn(Get(pkg, "imports"), <<"imports">>)

\* the place in the promise queue of the task of the leaf at a path
PlaceOf(path) == CHOOSE i \in DOMAIN queue : queue[i].kind = "leaf" /\ queue[i].path = path

\* C18: every FallbackArray of exports or imports, the empty one included,
\* yields exactly one *_FALLBACK_ARRAY_USE warning at its path, and no other
\* path holds one; each of its elements is crawled under the array's path
\* with its index appended, in positional order, in the imports context and
\* with the after-node flag of the array itself.
C18_FallbackArrayFlaggedAndCrawled ==
  Crawled =>
    /\ \A a \in FallbackArrays :
         /\ Emitted(Family(a.path, "FALLBACK_ARRAY_USE"), a.path) = 1
         /\ \A m \in MessagesAt(Family(a.path, "FALLBACK_ARRAY_USE"), a.path) :
              m.type = "warning"
         /\ \A i \in DOMAIN a.arr.e :
              a.arr.e[i].t = "str" =>
                LET path == Append(a.path, IndexStr(i - 1))
                IN  /\ \E k \in DOMAIN queue : queue[k].kind = "leaf" /\ queue[k].path = path
                    /\ TaskOf(path).isImports = (a.path[1] = "imports")
                    /\ TaskOf(path).after = AfterNode(a.path)
                    /\ \A j \in DOMAIN a.arr.e :
                         j < i /\ a.arr.e[j].t = "str" =>
                           PlaceOf(Append(a.path, IndexStr(j - 1))) < PlaceOf(path)
    /\ \A i \in DOMAIN messages :
         messages[i].code \in {"EXPORTS_FALLBACK_ARRAY_USE", "IMPORTS_FALLBACK_ARRAY_USE"}
           => \E a \in FallbackArrays : a.path = messages[i].path

\* the crawl is over: an empty array was flagged, and so was an array nested
\* in an element of another array, after a `node` key, whose element has a
\* task that carries the flag
C18_Witness ==
  /\ Crawled
  /\ \E a \in FallbackArrays :
       a.arr.e = <<>> /\ Emitted("EXPORTS_FALLBACK_ARRAY_USE", a.path) = 1
  /\ \E a \in FallbackArrays :
       /\ Len(a.path) = 4 /\ a.path[4] = "default"
       /\ Emitted("EXPORTS_FALLBACK_ARRAY_USE", a.path) = 1
       /\ TaskOf(Append(a.path, "0")).after

-----------------------------------------------------------------------------
(* The checks of main, module, bin, the implicit index.js and the files of   *)
(* a package without exports.                                                 *)

MixedText == "import x from 'y'\nmodule.exports = {}"
UnknownText == "var a = 1"
ShebangText == "#!/usr/bin/env node\nmodule.exports = {}"

IndexTexts == {CjsText, EsmText, MixedText, UnknownText, ShebangText}

\* a package whose index.js holds indexText (no index.js for ""), whose
\* index.mjs holds CommonJS, with lib/index.js ("dir"), lib.js as well
\* ("both") or neither, and with or without an index.cjs
FieldTree(indexText, lib, withCjs) ==
  <<File("/p/package.json", "root", "", JUndef)>>
    \o (IF indexText = "" THEN <<>> ELSE <<File("/p/index.js", "text", indexText, JUndef)>>)
    \o <<File("/p/index.mjs", "text", CjsText, JUndef)>>
    \o (IF withCjs THEN <<File("/p/index.cjs", "text", CjsText, JUndef)>> ELSE <<>>)
    \o (IF lib = "both" THEN <<File("/p/lib.js", "text", CjsText, JUndef)>> ELSE <<>>)
    \o (IF lib \in {"dir", "both"} THEN <<File("/p/lib/index.js", "text", CjsText, JUndef)>>
        ELSE <<>>)

FieldTrees ==
  {FieldTree(text, "none", FALSE) : text \in IndexTexts \cup {""}}
    \cup {FieldTree(CjsText, "dir", FALSE), FieldTree(CjsText, "both", FALSE),
          FieldTree(CjsText, "none", TRUE)}

\* a manifest; JUndef leaves a field out
FieldManifest(type, main, module, bin, exports) ==
  JMap(SelectSeq(<< KV("name", JStr("p")),
                    KV("files", JArr(<<JStr("lib")>>)),
                    KV("license", JStr("MIT")),
                    KV("type", type),
                    KV("main", main),
                    KV("module", module),
                    KV("bin", bin),
                    KV("exports", exports) >>,
                 LAMBDA kv : kv.v # JUndef))

FieldMains ==
  {JStr("./index.mjs"), JStr("./index.js"), JStr("./index"), JStr("./lib"),
   JStr("./gone.js"), JNum(5)}
FieldModules == {JStr("./index.js"), JStr("./gone.js")}
FieldBins ==
  {JStr("./index.js"), JMap(<<KV("a", JStr("./lib")), KV("b", JNum(5))>>)}
FieldExports == {JUndef, JStr("./index.js")}
ModuleExports == {JUndef, JMap(<<KV("module", JStr("./index.js"))>>)}

FieldManifests ==
  {FieldManifest(type, JUndef, JUndef, JUndef, JUndef) : type \in {JUndef, JStr("module")}}
    \cup {FieldManifest(type, main, JUndef, JUndef, exports) :
            type \in {JUndef, JStr("module")}, main \in FieldMains, exports \in FieldExports}
    \cup {FieldManifest(type, JUndef, module, JUndef, exports) :
            type \in {JUndef, JStr("module")}, module \in FieldModules,
            exports \in ModuleExports}
    \cup {FieldManifest(type, JUndef, JUndef, bin, exports) :
            type \in {JUndef, JStr("module")}, bin \in FieldBins, exports \in FieldExports}
    \cup {FieldManifest(JUndef, JStr("./index.js"), JStr("./index.js"), JStr("./index.js"),
                        JStr("./index.js"))}

FieldPacked ==
  {NotPacked, Packed(<<"/p/package.json", "/p/index.js", "/p/index.mjs", "/p/lib.js">>)}

InitFields ==
  /\ InitPass
  /\ vfs \in FieldTrees
  /\ pkg \in FieldManifests
  /\ packed \in FieldPacked
  /\ level = "suggestion"
  /\ strict = FALSE

NextFields == CoreSchedule \/ TaskStep \/ FieldStep \/ GlobStep \/ CoreReturn

\* one pass over a package with main, module, bin or none of them
SpecFields == InitFields /\ [][NextFields]_vars

MismatchCodes == FormatCodes \cup {"IMPLICIT_INDEX_JS_INVALID_FORMAT"}
ModuleCodes ==
  {"MODULE_SHOULD_BE_ESM", "EXPORTS_MODULE_SHOULD_BE_ESM", "IMPORTS_MODULE_SHOULD_BE_ESM"}

\* the tasks of the manifest fields
FieldTasks == {queue[i] : i \in {j \in DOMAIN queue : queue[j].kind = "field"}}

\* the file a format or module diagnostic is about
About(m, file) ==
  IF m.code = "IMPLICIT_INDEX_JS_INVALID_FORMAT" THEN file = pathJoin(pkgDir, "index.js")
  ELSE IF m.path = <<"name">> THEN pathJoin(pkgDir, "." \o m.args.actualFilePath) = file
  ELSE IF m.path[1] \in {"exports", "imports"}
  THEN pathJoin(pkgDir, TaskOf(m.path).value) = file
  ELSE \E t \in FieldTasks : t.path = m.path /\ t.read = file

\* how getCodeFormat classifies the content of a file, "none" without the file
FormatOfFile(file) ==
  IF IsFile(vfs, file) THEN getCodeFormat(FileAt(vfs, file).text) ELSE "none"

\* C11: no format-mismatch diagnostic (FILE_INVALID_FORMAT,
\* FILE_INVALID_EXPLICIT_FORMAT, IMPLICIT_INDEX_JS_INVALID_FORMAT) cites an
\* actual format of `mixed` or `unknown`, and while the package's index.js
\* classifies as `mixed` or `unknown` no such diagnostic and no
\* MODULE_SHOULD_BE_ESM or *_MODULE_SHOULD_BE_ESM is about it, whichever of
\* the implicit index, main, module, bin, the files of a package without
\* exports or an exports leaf refers to it.
C11_MixedUnknownNeverMismatch ==
  /\ \A i \in DOMAIN emitted :
       emitted[i].code \in MismatchCodes => emitted[i].args.actualFormat \in {"ESM", "CJS"}
  /\ FormatOfFile("/p/index.js") \in {"mixed", "unknown"} =>
       \A i \in DOMAIN emitted :
         emitted[i].code \in MismatchCodes \cup ModuleCodes => ~About(emitted[i], "/p/index.js")

\* the pass has returned for a package without exports whose index.js is
\* `mixed`: its main task and the task of the globbed file have both read
\* index.js and run to their end
C11_Witness ==
  /\ corePc = "returned"
  /\ FormatOfFile("/p/index.js") = "mixed"
  /\ \E t \in FieldTasks : t.field = "main" /\ t.read = "/p/index.js" /\ t.pc = "done"
  /\ \E i \in DOMAIN queue :
       /\ queue[i].kind = "glob"
       /\ \E j \in DOMAIN queue[i].sub :
            queue[i].sub[j].filePath = "/p/index.js" /\ queue[i].sub[j].pc = "done"

\* the pass has returned for a package whose index.js is `unknown` and is
\* named by exports under `module` and by the module field
C11_WitnessModule ==
  /\ corePc = "returned"
  /\ FormatOfFile("/p/index.js") = "unknown"
  /\ \E t \in FieldTasks : t.field = "module" /\ t.read = "/p/index.js" /\ t.pc = "done"
  /\ \E i \in DOMAIN queue : queue[i].kind = "leaf" /\ queue[i].path = <<"exports", "module">>

\* the format-mismatch diagnostics the pass returned about a file
ReturnedAbout(file) ==
  {i \in DOMAIN returned.messages :
     returned.messages[i].code \in FormatCodes /\ About(returned.messages[i], file)}

\* the diagnostic cites actual format CJS and expected format ESM
CitesCjsForEsm(m) == m.args.actualFormat = "CJS" /\ m.args.expectFormat = "ESM"

MainIsIndexMjs == Get(pkg, "main") = JStr("./index.mjs")

C14_WitnessBeside ==
  /\ corePc = "returned" /\ MainIsIndexMjs
  /\ ~Truthy(Get(pkg, "exports")) /\ IsFile(vfs, "/p/index.cjs")
  /\ Cardinality(ReturnedAbout("/p/index.mjs")) = 1

\* the paths readFile tries for a task of a field, in its order
Candidates(task) ==
  <<FieldFilePath(task)>>
    \o [k \in DOMAIN FieldExtensions(task) |->
          FieldFilePath(task) \o TryExtension(FieldFilePath(task), FieldExtensions(task)[k])]

\* the first of them that is a file, "" if none is
FirstFile(cands) ==
  LET files == {k \in DOMAIN cands : IsFile(vfs, cands[k])}
  IN  IF files = {} THEN "" ELSE cands[CHOOSE k \in files : \A l \in files : k <= l]

\* what C19 says of one reference: read is the path that was read, "" if
\* the read failed
ReadOutcome(pkgPath, cands, read) ==
  /\ read = FirstFile(cands)
  /\ Emitted("FILE_DOES_NOT_EXIST", pkgPath) = IF read = "" THEN 1 ELSE 0
  /\ Emitted("FILE_NOT_PUBLISHED", pkgPath)
       = IF read # "" /\ packed.given /\ ~SeqIncludes(packed.files, read) THEN 1 ELSE 0

\* C19: once the read of the file a field (main, module, bin) or an
\* exports leaf refers to has been answered: if neither the path nor, for a
\* field, the path with '.js' and with '/index.js' is a file, there is one
\* FILE_DOES_NOT_EXIST at the referring path, no FILE_NOT_PUBLISHED, no file
\* read and the task has ended; otherwise the first of them, in that order,
\* is the file read, there is no FILE_DOES_NOT_EXIST, and FILE_NOT_PUBLISHED
\* is there exactly when an allow-list is given and does not hold the path
\* read. Before the answer neither diagnostic is there.
C19_ReadFailureIsTerminal ==
  /\ \A t \in FieldTasks :
       t.field # "index" =>
         IF t.pc = "read"
         THEN Emitted("FILE_DOES_NOT_EXIST", t.path) = 0
                /\ Emitted("FILE_NOT_PUBLISHED", t.path) = 0
         ELSE /\ ReadOutcome(t.path, Candidates(t), t.read)
              /\ t.read = "" => t.pc = "done"
  /\ \A i \in DOMAIN queue :
       queue[i].kind = "leaf" /\ queue[i].pc = "wait" /\ Len(queue[i].sub) = 1 =>
         LET sub == queue[i].sub[1]
         IN  IF sub.pc = "read"
             THEN Emitted("FILE_DOES_NOT_EXIST", queue[i].path) = 0
                    /\ Emitted("FILE_NOT_PUBLISHED", queue[i].path) = 0
             ELSE /\ ReadOutcome(queue[i].path, <<sub.filePath>>,
                                 IF IsFile(vfs, sub.filePath) THEN sub.filePath ELSE "")
                  /\ ~IsFile(vfs, sub.filePath) => sub.pc = "done"

\* the pass has returned: main "./lib" was read as lib.js although
\* lib/index.js is a file too, outside the allow-list
C19_Witness ==
  /\ corePc = "returned"
  /\ \E t \in FieldTasks :
       /\ t.field = "main" /\ t.value = "./lib" /\ t.read = "/p/lib.js"
       /\ IsFile(vfs, "/p/lib/index.js")
       /\ packed.given

\* the pass has returned: a command of bin was read as lib/index.js, which
\* the allow-list does not hold
C19_WitnessIndex ==
  /\ corePc = "returned"
  /\ \E t \in FieldTasks :
       /\ t.field = "bin" /\ t.read = "/p/lib/index.js"
       /\ Emitted("FILE_NOT_PUBLISHED", t.path) = 1

\* the pass has returned: the file of main was not found under any name
C19_WitnessMissing ==
  /\ corePc = "returned"
  /\ \E t \in FieldTasks :
       /\ t.field = "main" /\ t.read = "" /\ t.pc = "done"
       /\ Emitted("FILE_DOES_NOT_EXIST", t.path) = 1

-----------------------------------------------------------------------------
(* The types a package exports.                                               *)

\* the text of a declaration file
DtsText == "export {}"

\* a package with a.js and e.mjs, with or without an index.d.ts and the
\* declaration files adjacent to the two, and a directory sub with a manifest
\* of a kind and a file of each explicit extension
TypesTree(subKind, withIndexDts, withAdjacent) ==
  <<File("/p/package.json", "root", "", JUndef)>>
    \o (IF withIndexDts THEN <<File("/p/index.d.ts", "text", DtsText, JUndef)>> ELSE <<>>)
    \o << File("/p/a.js", "text", CjsText, JUndef),
          File("/p/e.mjs", "text", EsmText, JUndef) >>
    \o (IF withAdjacent
        THEN << File("/p/a.d.ts", "text", "", JUndef),
                File("/p/e.d.mts", "text", "", JUndef) >>
        ELSE <<>>)
    \o NestedManifest("/p/sub", subKind)
    \o << File("/p/sub/t.d.mts", "text", "", JUndef),
          File("/p/sub/t.d.cts", "text", "", JUndef),
          File("/p/sub/y.mjs", "text", CjsText, JUndef),
          File("/p/sub/z.cjs", "text", EsmText, JUndef) >>

\* a manifest; JUndef leaves a field out
TypesManifest(type, types, typings, exports) ==
  JMap(SelectSeq(<< KV("name", JStr("p")),
                    KV("files", JArr(<<JStr("lib")>>)),
                    KV("license", JStr("MIT")),
                    KV("type", type),
                    KV("types", types),
                    KV("typings", typings),
                    KV("exports", exports) >>,
                 LAMBDA kv : kv.v # JUndef))

\* exports whose resolutions end at code files
CodeExports ==
  { JStr("./a.js"),
    JArr(<<JStr("./a.js")>>),
    JMap(<<KV("import", JStr("./e.mjs")), KV("require", JStr("./a.js"))>>),
    JMap(<<KV(".", JMap(<<KV("import", JStr("./e.mjs")), KV("default", JStr("./a.js"))>>))>>),
    JMap(<<KV("node", JMap(<<KV("import", JStr("./e.mjs")), KV("require", JStr("./a.js"))>>)),
           KV("default", JStr("./a.js"))>>),
    JMap(<<KV("types", JStr("./a.js")), KV("import", JStr("./e.mjs")),
           KV("require", JStr("./a.js"))>>),
    JMap(<<KV("import", JStr("./gone.js"))>>),
    JMap(<<KV("./x", JStr("./a.js"))>>) }

\* exports whose types are declaration files with an explicit extension
MtsOverCjs == JMap(<<KV("types", JStr("./sub/t.d.mts")), KV("default", JStr("./sub/z.cjs"))>>)
CtsOverMjs == JMap(<<KV("types", JStr("./sub/t.d.cts")), KV("default", JStr("./sub/y.mjs"))>>)
DualDts ==
  JMap(<< KV("import", JMap(<<KV("types", JStr("./sub/t.d.cts")),
                              KV("default", JStr("./sub/y.mjs"))>>)),
          KV("require", JMap(<<KV("types", JStr("./sub/t.d.mts")),
                               KV("default", JStr("./sub/z.cjs"))>>)) >>)
DtsExports == {MtsOverCjs, CtsOverMjs, DualDts}

\* a package with a.js and a.d.ts, an index.d.ts that is absent, empty or a
\* declaration, and a directory sub with a manifest of a kind and an a.d.ts
PairTree(subKind, index) ==
  <<File("/p/package.json", "root", "", JUndef)>>
    \o (CASE index = "none" -> <<>>
          [] index = "empty" -> <<File("/p/index.d.ts", "text", "", JUndef)>>
          [] OTHER -> <<File("/p/index.d.ts", "text", DtsText, JUndef)>>)
    \o << File("/p/a.js", "text", "", JUndef),
          File("/p/a.d.ts", "text", DtsText, JUndef) >>
    \o NestedManifest("/p/sub", subKind)
    \o <<File("/p/sub/a.d.ts", "text", DtsText, JUndef)>>

\* exports of one entry point with its types and its import
PairExports(types) ==
  JMap(<<KV(".", JMap(<<KV("types", JStr(types)), KV("import", JStr("./a.js"))>>))>>)

PairTypes == {"./a.d.ts", "./sub/a.d.ts"}

\* exports that are dual under the node condition only, with one `types`
\* for every resolution: a declaration file, or a code file
DualUnderNode(types) ==
  JMap(<< KV("types", JStr(types)),
          KV("node", JMap(<<KV("import", JStr("./e.mjs")), KV("require", JStr("./a.js"))>>)),
          KV("default", JStr("./a.js")) >>)

MixedExports == {DualUnderNode("./sub/t.d.cts"), DualUnderNode("./a.js")}

\* exports whose declaration file has no sibling that resolves, a sibling
\* that does not exist, a sibling for import only, and a dual pair whose
\* import ends at a file without an explicit extension
SiblingExports ==
  { JMap(<<KV("types", JStr("./sub/t.d.cts"))>>),
    JMap(<<KV("types", JStr("./sub/t.d.cts")), KV("default", JStr("./gone.js"))>>),
    JMap(<<KV("types", JStr("./sub/t.d.mts")), KV("import", JStr("./e.mjs"))>>),
    JMap(<< KV("import", JMap(<<KV("types", JStr("./sub/t.d.cts")),
                                KV("default", JStr("./a.js"))>>)),
            KV("require", JMap(<<KV("types", JStr("./sub/t.d.cts")),
                                 KV("default", JStr("./sub/z.cjs"))>>)) >>) }

TypesFields ==
  { [types |-> JUndef, typings |-> JUndef],
    [types |-> JStr("./index.d.ts"), typings |-> JUndef],
    [types |-> JStr("./index.d.mts"), typings |-> JStr("./index.d.ts")],
    [types |-> JUndef, typings |-> JStr("./index.d.ts")] }

InitTypes ==
  /\ InitPass
  /\ \/ /\ \E withIndexDts \in BOOLEAN, withAdjacent \in BOOLEAN :
             vfs = TypesTree("none", withIndexDts, withAdjacent)
        /\ \E type \in {JUndef, JStr("module")}, f \in TypesFields, e \in CodeExports :
             pkg = TypesManifest(type, f.types, f.typings, e)
     \/ /\ \E subKind \in NestedManifestKinds : vfs = TypesTree(subKind, TRUE, FALSE)
        /\ \E type \in {JUndef, JStr("module")}, e \in DtsExports \cup MixedExports :
             pkg = TypesManifest(type, JUndef, JUndef, e)
     \/ /\ vfs = TypesTree("none", TRUE, FALSE)
        /\ \E type \in {JUndef, JStr("module")}, e \in SiblingExports :
             pkg = TypesManifest(type, JUndef, JUndef, e)
     \/ /\ \E subKind \in NestedManifestKinds, index \in {"none", "empty", "declared"} :
             vfs = PairTree(subKind, index)
        /\ \E type \in {JUndef, JStr("module")}, types \in PairTypes :
             pkg = TypesManifest(type, JUndef, JUndef, PairExports(types))
  /\ packed = NotPacked
  /\ level = "suggestion"
  /\ strict = FALSE

NextTypes == CoreSchedule \/ TaskStep \/ TypesStep \/ KnownFieldStep \/ CoreReturn

\* one pass over a package that may ship types
SpecTypes == InitTypes /\ [][NextTypes]_vars

\* the tasks of checkTypesExported
TypesTasks == {queue[i] : i \in {j \in DOMAIN queue : queue[j].kind = "types"}}

\* the k-th resolution of the task, computed from the manifest
RunOf(task, k) ==
  TypesRun(ExportsRootValue(Get(pkg, "exports"), task.rootKey),
           ExportsRootPath(<<"exports">>, task.rootKey), k)

\* the resolution ends at an existing file that is not a declaration file
EndsAtCode(r) == r.found /\ IsFile(vfs, pathJoin(pkgDir, r.value)) /\ ~isDtsFile(r.value)

\* the declaration file adjacent to a code file
AdjacentOf(value) ==
  CASE EndsWith(value, ".mjs") -> SubSeq(value, 1, Len(value) - 4) \o ".d.mts"
    [] EndsWith(value, ".cjs") -> SubSeq(value, 1, Len(value) - 4) \o ".d.cts"
    [] EndsWith(value, ".jsx") -> SubSeq(value, 1, Len(value) - 4) \o ".d.ts"
    [] OTHER -> SubSeq(value, 1, Len(value) - 3) \o ".d.ts"

HasAdjacent(r) == IsFile(vfs, pathJoin(pkgDir, AdjacentOf(r.value)))

\* the format of the top-level declaration file, which lies in the root
TopFormat(typesFilePath) ==
  IF EndsWith(typesFilePath, ".d.mts") THEN "ESM"
  ELSE IF EndsWith(typesFilePath, ".d.cts") THEN "CJS"
  ELSE IF Get(pkg, "type") = JStr("module") THEN "ESM" ELSE "CJS"

ConditionFormat(format) == IF format = "import" THEN "ESM" ELSE "CJS"

\* the diagnostic leaves actualExtension and expectExtension undefined
ExtensionsUndefined(m) ==
  "actualExtension" \notin DOMAIN m.args /\ "expectExtension" \notin DOMAIN m.args

\* the diagnostic tells both
ExtensionsDefined(m) ==
  "actualExtension" \in DOMAIN m.args /\ "expectExtension" \in DOMAIN m.args

\* the diagnostic is the one of a resolution for a format
IsFor(m, task, format) ==
  IF TopFormat(task.typesFilePath) = ConditionFormat(format) THEN ExtensionsUndefined(m)
  ELSE ExtensionsDefined(m)

\* the task of a package that ships types has run to its end
TypesDone(task) == task.pc = "done" /\ "typesFilePath" \in DOMAIN task

\* the resolutions of the task, in the order of the loops
RunsOf(task) == [k \in 1..TypesRuns |-> RunOf(task, k)]

StatedOf(task, runs) ==
  \A k \in DOMAIN runs :
    EndsAtCode(runs[k]) =>
      /\ Emitted("TYPES_NOT_EXPORTED", runs[k].path) > 0 <=> ~HasAdjacent(runs[k])
      /\ \A m \in MessagesAt("TYPES_NOT_EXPORTED", runs[k].path) :
           IsFor(m, task, runs[k].format)

\* C20 as stated: when the package ships types and the resolution with the
\* `types` condition for a format and a platform ends at an existing file
\* that is not a declaration file, TYPES_NOT_EXPORTED is at the path of the
\* resolution if and only if the adjacent declaration file does not exist,
\* and its extension arguments are undefined exactly when the format of the
\* top-level declaration file is the format of the condition.
C20_TypesNotExportedPerResolution ==
  \A task \in TypesTasks : TypesDone(task) => StatedOf(task, RunsOf(task))

\* the resolutions the task lints: the first of each key, a key being the
\* path, with the format when import and require end at different files
LintedRuns(runs) ==
  {k \in DOMAIN runs :
     /\ runs[k].found
     /\ \A j \in 1..(k - 1) : runs[j].found => runs[j].seenKey # runs[k].seenKey}

\* the formats of the linted resolutions that end at a path, at code without
\* a declaration file adjacent to it, one entry per resolution
UnexportedOf(runs, linted, path) ==
  {<<k, runs[k].format>> : k \in {j \in linted :
     runs[j].path = path /\ EndsAtCode(runs[j]) /\ ~HasAdjacent(runs[j])}}

AmendedAt(task, path, msgs, unexported) ==
  /\ Emitted("TYPES_NOT_EXPORTED", path) = Cardinality(unexported)
  /\ \A m \in msgs :
       /\ m.type = "warning"
       /\ m.args.typesFilePath = task.typesFilePath
       /\ \E u \in unexported : IsFor(m, task, u[2])
  /\ \A u \in unexported : \E m \in msgs : IsFor(m, task, u[2])

AmendedOf(task, runs, linted) ==
  /\ \A k \in DOMAIN runs :
       EndsAtCode(runs[k]) =>
         /\ Emitted("TYPES_NOT_EXPORTED", runs[k].path) > 0 <=> ~HasAdjacent(runs[k])
         /\ AmendedAt(task, runs[k].path, MessagesAt("TYPES_NOT_EXPORTED", runs[k].path),
                      UnexportedOf(runs, linted, runs[k].path))
  /\ \A i \in DOMAIN messages :
       messages[i].code = "TYPES_NOT_EXPORTED" =>
         UnexportedOf(runs, linted, messages[i].path) # {}

\* C20, amended: under the same conditions TYPES_NOT_EXPORTED is at the path
\* of the resolution if and only if the adjacent declaration file does not
\* exist, as a warning that names the top-level declaration file; there is
\* one per linted resolution of the path, and its extension arguments are
\* undefined exactly when the format of the top-level declaration file is
\* the format of the condition of that linted resolution, which is import
\* when both formats end at the same path of a package that is not dual.
C20_TypesNotExportedPerLintedResolution ==
  \A task \in TypesTasks :
    TypesDone(task) => AmendedOf(task, RunsOf(task), LintedRuns(RunsOf(task)))

\* the task has ended for a package of CommonJS whose exports is one file
\* without a declaration file beside it: the diagnostic is there and tells
\* the extensions, as for import
C20_Witness ==
  \E task \in TypesTasks :
    /\ TypesDone(task)
    /\ Get(pkg, "exports") = JStr("./a.js")
    /\ TopFormat(task.typesFilePath) = "CJS"
    /\ Emitted("TYPES_NOT_EXPORTED", <<"exports">>) = 1
    /\ \A m \in MessagesAt("TYPES_NOT_EXPORTED", <<"exports">>) : ExtensionsDefined(m)

\* the task has ended for a dual package: one diagnostic under import, one
\* under require, of which one leaves the extensions undefined
C20_WitnessDual ==
  \E task \in TypesTasks :
    /\ TypesDone(task)
    /\ Emitted("TYPES_NOT_EXPORTED", <<"exports", "import">>) = 1
    /\ Emitted("TYPES_NOT_EXPORTED", <<"exports", "require">>) = 1
    /\ \E m \in MessagesAt("TYPES_NOT_EXPORTED", <<"exports", "require">>) :
         ExtensionsUndefined(m)

\* the format diagnostics of a code and a path that cite the two formats
Citing(code, path, actualFormat, expectFormat) ==
  {m \in MessagesAt(code, path) :
     m.args.actualFormat = actualFormat /\ m.args.expectFormat = expectFormat}

\* C13: the format of a path with an explicit extension is the one of the
\* extension, whatever the manifest above it is (none, malformed, without
\* type, module, commonjs) and whatever the root declares: by the end of the
\* pass a declaration file .d.mts over a .cjs file is reported as ESM where
\* CJS is expected, and the .cjs file of ESM content as ESM where CJS is
\* expected; a .d.cts over a .mjs file of CJS content the other way round;
\* and no diagnostic gives any of them another format.
C13_ExtensionAloneDecides ==
  /\ corePc = "returned" /\ Get(pkg, "exports") = MtsOverCjs =>
       /\ Cardinality(Citing("EXPORTS_TYPES_INVALID_FORMAT", <<"exports", "types">>,
                             "ESM", "CJS")) = 1
       /\ Cardinality(Citing("FILE_INVALID_EXPLICIT_FORMAT", <<"exports", "default">>,
                             "ESM", "CJS")) = 1
  /\ corePc = "returned" /\ Get(pkg, "exports") = CtsOverMjs =>
       /\ Cardinality(Citing("EXPORTS_TYPES_INVALID_FORMAT", <<"exports", "types">>,
                             "CJS", "ESM")) = 1
       /\ Cardinality(Citing("FILE_INVALID_EXPLICIT_FORMAT", <<"exports", "default">>,
                             "CJS", "ESM")) = 1
  /\ Get(pkg, "exports") \in DtsExports =>
       \A i \in DOMAIN messages :
         /\ messages[i].code = "EXPORTS_TYPES_INVALID_FORMAT" =>
              messages[i].args.actualFormat
                = IF messages[i].args.actualExtension = ".mts" THEN "ESM" ELSE "CJS"
         /\ messages[i].code = "FILE_INVALID_EXPLICIT_FORMAT" =>
              messages[i].args.expectFormat
                = IF messages[i].args.actualExtension = ".mjs" THEN "ESM" ELSE "CJS"

\* the pass has returned for a .d.mts over a .cjs file under a manifest that
\* declares type module, and the declaration file was reported as ESM
C13_Witness ==
  /\ corePc = "returned" /\ Get(pkg, "exports") = MtsOverCjs
  /\ IsFile(vfs, "/p/sub/package.json")
  /\ FileAt(vfs, "/p/sub/package.json").kind = "json"
  /\ Get(FileAt(vfs, "/p/sub/package.json").json, "type") = JStr("module")
  /\ Citing("EXPORTS_TYPES_INVALID_FORMAT", <<"exports", "types">>, "ESM", "CJS") # {}

-----------------------------------------------------------------------------
(* The declaration file and the code file of one entry point.                 *)

\* the manifest is exports {".": {types, import: "./a.js"}} without main,
\* module, types and typings
PairManifest ==
  /\ \E types \in PairTypes : Get(pkg, "exports") = PairExports(types)
  /\ \A f \in {"main", "module", "types", "typings"} : ~HasKey(pkg, f)

PairPath == <<"exports", ".", "types">>

\* the declaration file of the entry point
PairDts == pathJoin(pkgDir, Get(Get(Get(pkg, "exports"), "."), "types").s)

\* the format of a file without an explicit extension: the one of the
\* nearest manifest that parses
ByNearest(file) == FormatByFirst(DirsAbove(file), HasManifest)

PairDisagree == ByNearest(PairDts) # ByNearest("/p/a.js")

\* the task has linted the resolution that ends at the declaration file
Inspected(task) == "typesFilePath" \in DOMAIN task /\ JoinDot(PairPath) \in task.seen

\* ./index.d.ts reads as a text that is not empty
ShipsIndexDts == IsFile(vfs, "/p/index.d.ts") /\ FileAt(vfs, "/p/index.d.ts").text # ""

\* C21 as stated: for exports {".": {"types": "./a.d.ts", "import": "./a.js"}}
\* without main, module and a root types field, the task of
\* checkTypesExported inspects the declaration file against the format of
\* ./a.js, and EXPORTS_TYPES_INVALID_FORMAT is at the resolution if and only
\* if the two formats disagree.
C21_PairInspected ==
  \A task \in TypesTasks :
    PairManifest /\ task.pc = "done" =>
      /\ Inspected(task)
      /\ Emitted("EXPORTS_TYPES_INVALID_FORMAT", PairPath) > 0 <=> PairDisagree

\* C21, amended: for the same manifest the task inspects the declaration
\* file if and only if the package ships types, which without a root types
\* field is: ./index.d.ts reads as a text that is not empty. When it does,
\* EXPORTS_TYPES_INVALID_FORMAT is at the resolution, once, if and only if
\* the format of the declaration file and the format of ./a.js disagree, and
\* it cites the two formats and the path with import before types; when it
\* does not, nothing is inspected and there is no such diagnostic.
C21_PairInspectedWhenTypesShip ==
  \A task \in TypesTasks :
    PairManifest /\ task.pc = "done" =>
      /\ Inspected(task) <=> ShipsIndexDts
      /\ Emitted("EXPORTS_TYPES_INVALID_FORMAT", PairPath)
           = IF ShipsIndexDts /\ PairDisagree THEN 1 ELSE 0
      /\ \A m \in MessagesAt("EXPORTS_TYPES_INVALID_FORMAT", PairPath) :
           /\ m.args.actualFormat = ByNearest(PairDts)
           /\ m.args.expectFormat = ByNearest("/p/a.js")
           /\ m.args.condition = "import"
           /\ m.args.expectPath = <<"exports", ".", "import", "types">>

\* the task has ended for a package that ships ./index.d.ts and whose
\* declaration file lies under a manifest of another type than the root: the
\* diagnostic is there
C21_Witness ==
  \E task \in TypesTasks :
    /\ PairManifest /\ task.pc = "done" /\ Inspected(task)
    /\ ShipsIndexDts /\ PairDisagree
    /\ Emitted("EXPORTS_TYPES_INVALID_FORMAT", PairPath) = 1

\* the task has ended for the manifest with ./a.d.ts in a package without
\* ./index.d.ts: nothing was inspected
C21_WitnessNoTypes ==
  \E task \in TypesTasks :
    /\ PairManifest /\ task.pc = "done" /\ ~Inspected(task)
    /\ Get(pkg, "exports") = PairExports("./a.d.ts")
    /\ ~IsFile(vfs, "/p/index.d.ts")

-----------------------------------------------------------------------------
(* How often a resolution is linted.                                          *)

DeclarationCodes == {"TYPES_NOT_EXPORTED", "EXPORTS_TYPES_INVALID_FORMAT"}

\* the declaration diagnostics of the pass at a path
DeclarationsAt(path) ==
  {i \in DOMAIN messages : messages[i].code \in DeclarationCodes /\ messages[i].path = path}

\* the keys a path may have been seen by
KeysOfPath(path) == {JoinDot(path) \o suffix : suffix \in {"", "import", "require"}}

\* the paths the resolutions with `types` end at
ResolvedPaths(runs) == {runs[k].path : k \in {j \in DOMAIN runs : runs[j].found}}

\* import and require end at different files for some resolution of the path
DualAt(runs, path) ==
  \E k \in DOMAIN runs : runs[k].found /\ runs[k].path = path /\ runs[k].isDualPublish

\* how often a path may be linted: once per format when dual, else once
LintsAllowed(runs, path) == IF DualAt(runs, path) THEN Len(TypesFormats) ELSE 1

OncePerPathOrFormat(task, runs) ==
  \A path \in ResolvedPaths(runs) :
    /\ Cardinality(task.seen \cap KeysOfPath(path)) <= LintsAllowed(runs, path)
    /\ Cardinality(DeclarationsAt(path)) <= LintsAllowed(runs, path)
    /\ \A format \in {"import", "require"} :
         Cardinality({i \in DeclarationsAt(path) :
                        /\ "condition" \in DOMAIN messages[i].args
                        /\ messages[i].args.condition = format}) <= 1

\* C22: within one run of checkTypesExported, over all formats and
\* platforms, a resolution path is linted at most once, or once per format
\* when import and require end at different files; so there is at most one
\* declaration diagnostic per path, or per path and format when dual.
C22_OncePerPathOrFormat ==
  \A task \in TypesTasks : TypesDone(task) => OncePerPathOrFormat(task, RunsOf(task))

\* the same, for the packages whose import and require are dual under every
\* platform or under none
C22_OnceWhenDualEverywhere ==
  \A task \in TypesTasks :
    TypesDone(task) /\ Get(pkg, "exports") \notin MixedExports =>
      OncePerPathOrFormat(task, RunsOf(task))

\* a package that is dual under node only has ended: the one path of its
\* types was linted three times
C22_LintedThrice ==
  \E task \in TypesTasks :
    /\ TypesDone(task) /\ Get(pkg, "exports") \in MixedExports
    /\ Cardinality(task.seen \cap KeysOfPath(<<"exports", "types">>)) = 3
    /\ Cardinality(DeclarationsAt(<<"exports", "types">>)) >= 2

\* the package of type module that is dual under node only, with a .d.cts
\* for every resolution, has ended: the same diagnostic is there twice
C22_SameDiagnosticTwice ==
  \E task \in TypesTasks :
    /\ TypesDone(task)
    /\ Get(pkg, "exports") = DualUnderNode("./sub/t.d.cts")
    /\ Get(pkg, "type") = JStr("module")
    /\ \E i \in DOMAIN messages, j \in DOMAIN messages :
         /\ i < j /\ messages[i] = messages[j]
         /\ messages[i].code = "EXPORTS_TYPES_INVALID_FORMAT"
         /\ messages[i].args.condition = "import"

-----------------------------------------------------------------------------
(* The format a declaration file is expected in.                              *)

\* the format of a path: the one of an explicit extension, else the one of
\* the nearest manifest that parses
PathFormat(file) ==
  IF EndsWith(file, ".mjs") \/ EndsWith(file, ".d.mts") THEN "ESM"
  ELSE IF EndsWith(file, ".cjs") \/ EndsWith(file, ".d.cts") THEN "CJS"
  ELSE ByNearest(file)

\* the resolution ends at an existing declaration file
EndsAtDts(r) ==
  /\ r.found /\ IsFile(vfs, pathJoin(pkgDir, r.value))
  /\ \E ext \in {".d.ts", ".d.mts", ".d.cts"} : EndsWith(r.value, ext)

\* the sibling of a resolution resolves and exists
HasSibling(r) == r.jsResult.found /\ IsFile(vfs, pathJoin(pkgDir, r.jsResult.value))

SiblingFormat(r) == PathFormat(pathJoin(pkgDir, r.jsResult.value))

\* the expected format as stated: the one of the sibling if there is one
ExpectedBySibling(r) ==
  IF HasSibling(r) THEN SiblingFormat(r) ELSE ConditionFormat(r.format)

\* the expected format of a dual package is the one of the condition
ExpectedUnlessDual(r) ==
  IF ~r.isDualPublish /\ HasSibling(r) THEN SiblingFormat(r) ELSE ConditionFormat(r.format)

DtsExtension(format) == IF format = "ESM" THEN ".mts" ELSE ".cts"

\* the path with the format before a trailing `types`, or else at its end
InsertedPath(path, format) ==
  IF path[Len(path)] = "types" /\ \A i \in 1..(Len(path) - 1) : path[i] # "types"
  THEN [i \in 1..(Len(path) + 1) |->
          IF i < Len(path) THEN path[i] ELSE IF i = Len(path) THEN format ELSE "types"]
  ELSE path \o <<format>>

\* the diagnostic carries the expected extension and the insertion path
CarriesAsStated(m, r) ==
  /\ m.args.expectExtension = DtsExtension(m.args.expectFormat)
  /\ m.args.expectPath = InsertedPath(r.path, r.format)

SiblingStatedOf(runs) ==
  \A k \in DOMAIN runs :
    EndsAtDts(runs[k]) =>
      /\ Emitted("EXPORTS_TYPES_INVALID_FORMAT", runs[k].path) > 0
           <=> PathFormat(pathJoin(pkgDir, runs[k].value)) # ExpectedBySibling(runs[k])
      /\ \A m \in MessagesAt("EXPORTS_TYPES_INVALID_FORMAT", runs[k].path) :
           m.args.condition = runs[k].format => CarriesAsStated(m, runs[k])

\* C23 as stated: when a `types` resolution ends at an existing declaration
\* file, the expected format is the one of the sibling code file whenever it
\* resolves and exists, and the one of the condition otherwise;
\* EXPORTS_TYPES_INVALID_FORMAT is at the resolution path if and only if the
\* format of the declaration file differs from it, and carries the expected
\* extension and the path with the format added before a trailing `types`
\* or else at the end.
C23_ExpectedFromSibling ==
  \A task \in TypesTasks : TypesDone(task) => SiblingStatedOf(RunsOf(task))

\* the linted resolutions of a path that end at a declaration file of
\* another format than expected
MismatchedOf(runs, linted, path) ==
  {k \in linted : /\ runs[k].path = path /\ EndsAtDts(runs[k])
                  /\ PathFormat(pathJoin(pkgDir, runs[k].value)) # ExpectedUnlessDual(runs[k])}

\* the diagnostic is the one of the resolution
IsOfRun(m, r) ==
  /\ m.type = "warning"
  /\ m.args.condition = r.format
  /\ m.args.actualFormat = PathFormat(pathJoin(pkgDir, r.value))
  /\ m.args.expectFormat = ExpectedUnlessDual(r)
  /\ m.args.actualExtension = getExtName(r.value)
  /\ m.args.expectExtension = DtsExtension(ExpectedUnlessDual(r))
  /\ m.args.expectPath
       = IF \E i \in DOMAIN r.path : r.path[i] = r.format THEN r.path
         ELSE InsertedPath(r.path, r.format)

SiblingAmendedAt(runs, path, msgs, mismatched) ==
  /\ Emitted("EXPORTS_TYPES_INVALID_FORMAT", path) = Cardinality(mismatched)
  /\ \A m \in msgs : \E k \in mismatched : IsOfRun(m, runs[k])
  /\ \A k \in mismatched : \E m \in msgs : IsOfRun(m, runs[k])

SiblingAmendedOf(runs, linted) ==
  /\ \A k \in DOMAIN runs :
       runs[k].found =>
         SiblingAmendedAt(runs, runs[k].path,
                          MessagesAt("EXPORTS_TYPES_INVALID_FORMAT", runs[k].path),
                          MismatchedOf(runs, linted, runs[k].path))
  /\ \A i \in DOMAIN messages :
       messages[i].code = "EXPORTS_TYPES_INVALID_FORMAT" =>
         MismatchedOf(runs, linted, messages[i].path) # {}

\* C23, amended: for every linted resolution (the first of each key) that
\* ends at an existing declaration file, the expected format is the one of
\* the sibling code file when import and require do not end at different
\* files and the sibling resolves and exists, and the one of the condition
\* otherwise: always for a dual package, and when the sibling does not
\* resolve or does not exist. EXPORTS_TYPES_INVALID_FORMAT is at the
\* resolution path once per linted resolution whose declaration file differs
\* from that format, as a warning that carries the condition, the two
\* formats, the two extensions and the path, which is the resolution path
\* itself when it holds the format and else the path with the format added
\* before a trailing `types` or at the end; there is no other.
C23_ExpectedFromSiblingUnlessDual ==
  \A task \in TypesTasks :
    TypesDone(task) => SiblingAmendedOf(RunsOf(task), LintedRuns(RunsOf(task)))

\* a dual package has ended whose import ends at a CommonJS file with a
\* .d.cts: the diagnostic under import expects ESM, as the condition
C23_Witness ==
  \E task \in TypesTasks :
    /\ TypesDone(task)
    /\ \E k \in DOMAIN RunsOf(task) :
         /\ RunOf(task, k).isDualPublish /\ EndsAtDts(RunOf(task, k))
         /\ HasSibling(RunOf(task, k)) /\ SiblingFormat(RunOf(task, k)) = "CJS"
         /\ RunOf(task, k).format = "import"
         /\ \E m \in MessagesAt("EXPORTS_TYPES_INVALID_FORMAT", RunOf(task, k).path) :
              m.args.expectFormat = "ESM" /\ m.args.actualFormat = "CJS"

\* a package that is not dual has ended with a .d.mts over a .cjs sibling:
\* the diagnostic expects CJS although the condition is import
C23_WitnessSibling ==
  \E task \in TypesTasks :
    /\ TypesDone(task) /\ Get(pkg, "exports") = MtsOverCjs
    /\ \E m \in MessagesAt("EXPORTS_TYPES_INVALID_FORMAT", <<"exports", "types">>) :
         /\ m.args.condition = "import" /\ m.args.expectFormat = "CJS"
         /\ m.args.expectPath = <<"exports", "import", "types">>

-----------------------------------------------------------------------------
(* The order resolveExports decides by.                                       *)

ResolveKeyNames == {"types", "import", "node", "default"}

\* the values of a key: a file, a map no condition of the pass matches but
\* worker, an empty map and an empty array
ResolveValues ==
  { JStr("./a.js"), JMap(<<KV("worker", JStr("./a.js"))>>), JMap(<<>>), JArr(<<>>) }

\* maps that nest: a `default` that does not resolve before a key that does,
\* below a condition and below an array
ResolveNested ==
  { JMap(<< KV("node", JMap(<< KV("default", JMap(<<KV("worker", JStr("./a.js"))>>)),
                               KV("import", JStr("./a.js")) >>)),
            KV("import", JStr("./e.mjs")) >>),
    JMap(<< KV("import", JArr(<< JMap(<< KV("browser", JMap(<<>>)),
                                         KV("types", JStr("./a.js")) >>) >>)),
            KV("default", JStr("./e.mjs")) >>) }

InitResolve ==
  /\ InitPass
  /\ \E withIndexDts \in BOOLEAN : vfs = TypesTree("none", withIndexDts, FALSE)
  /\ \/ \E k1 \in ResolveKeyNames, k2 \in ResolveKeyNames, v1 \in ResolveValues, v2 \in ResolveValues :
          /\ k1 # k2
          /\ pkg = TypesManifest(JUndef, JUndef, JUndef, JMap(<<KV(k1, v1), KV(k2, v2)>>))
     \/ \E e \in ResolveNested, types \in {JUndef, JStr("./index.d.ts")} :
          pkg = TypesManifest(JUndef, types, JUndef, e)
  /\ packed = NotPacked
  /\ level = "suggestion"
  /\ strict = FALSE

\* one pass over a package whose exports is a map of conditions
SpecResolve == InitResolve /\ [][NextTypes]_vars

\* the sets of conditions checkTypesExported resolves by
ResolveConditions ==
  {Conditions(first, env) : first \in {<<"import">>, <<"require">>, <<"types", "import">>, <<"types", "require">>}, env \in {"", "node", "browser", "worker"}}

\* the value at the end of a path of keys and indices; JUndef off the tree
RECURSIVE Descend(_, _)
Descend(value, keys) ==
  IF keys = <<>> THEN value
  ELSE IF value.t = "map" /\ HasKey(value, Head(keys))
  THEN Descend(Get(value, Head(keys)), Tail(keys))
  ELSE IF value.t = "arr" /\ Head(keys) = "0" /\ Len(value.e) > 0
  THEN Descend(value.e[1], Tail(keys))
  ELSE JUndef

\* a key the search descends into
Matches(key, conditions) == SeqIncludes(conditions, key) \/ key = "default"

\* the search of a map ends at its i-th key: the key matches, and it is
\* `default` or what is below it resolves
EndsAtKey(map, i, conditions) ==
  /\ Matches(map.e[i].k, conditions)
  /\ \/ map.e[i].k = "default"
     \/ resolveExports(map.e[i].v, conditions, <<>>).found

\* the key a map is left by: the first the search ends at, 0 if there is none
DecidingKey(map, conditions) ==
  IF \E i \in DOMAIN map.e : EndsAtKey(map, i, conditions)
  THEN CHOOSE i \in DOMAIN map.e :
         /\ EndsAtKey(map, i, conditions)
         /\ \A j \in 1..(i - 1) : ~EndsAtKey(map, j, conditions)
  ELSE 0

\* every step of the descent is the deciding key of its map, or the first
\* element of its array
RECURSIVE DescentInOrder(_, _, _)
DescentInOrder(value, keys, conditions) ==
  IF keys = <<>> THEN value.t = "str"
  ELSE IF value.t = "map"
  THEN /\ DecidingKey(value, conditions) > 0
       /\ value.e[DecidingKey(value, conditions)].k = Head(keys)
       /\ DescentInOrder(value.e[DecidingKey(value, conditions)].v, Tail(keys), conditions)
  ELSE /\ value.t = "arr" /\ Len(value.e) > 0 /\ Head(keys) = "0"
       /\ DescentInOrder(value.e[1], Tail(keys), conditions)

\* a map resolves to nothing: its deciding key is a `default` that does not
\* resolve, or it has none
NothingInOrder(value, conditions) ==
  value.t = "map" /\ DecidingKey(value, conditions) > 0 =>
    /\ value.e[DecidingKey(value, conditions)].k = "default"
    /\ ~resolveExports(value.e[DecidingKey(value, conditions)].v, conditions, <<>>).found

ResolvedInOrder(value, conditions, currentPath, result) ==
  IF result.found
  THEN /\ Len(result.path) >= Len(currentPath)
       /\ SubSeq(result.path, 1, Len(currentPath)) = currentPath
       /\ Descend(value, SubSeq(result.path, Len(currentPath) + 1, Len(result.path)))
            = JStr(result.value)
       /\ DescentInOrder(value, SubSeq(result.path, Len(currentPath) + 1, Len(result.path)),
                         conditions)
  ELSE NothingInOrder(value, conditions)

\* C29: resolveExports decides by the declared order of the keys: it
\* descends into the first key that is a requested condition or `default`,
\* returns what is below it if that resolves to a string, and otherwise goes
\* on to the next such key, but never past a `default`; the path it returns
\* is the path of the caller followed by the keys it descended through (and
\* "0" for an array, of which it takes the first element).
C29_ResolvedInDeclaredOrder ==
  \A task \in TypesTasks :
    \A conditions \in ResolveConditions :
      ResolvedInOrder(ExportsRootValue(Get(pkg, "exports"), task.rootKey), conditions,
                      ExportsRootPath(<<"exports">>, task.rootKey),
                      resolveExports(ExportsRootValue(Get(pkg, "exports"), task.rootKey),
                                     conditions,
                                     ExportsRootPath(<<"exports">>, task.rootKey)))

\* the task has linted a package whose `default` does not resolve and stands
\* before `import`: no resolution was seen, although import matches
C29_Witness ==
  \E task \in TypesTasks :
    /\ TypesDone(task) /\ task.seen = {}
    /\ Get(pkg, "exports") = JMap(<<KV("default", JMap(<<>>)), KV("import", JStr("./a.js"))>>)
    /\ ~resolveExports(Get(pkg, "exports"), <<"types", "import">>, <<"exports">>).found

\* the task has linted a package whose `node` does not resolve and stands
\* before `import`: the resolution under node went on to import
C29_WitnessNext ==
  \E task \in TypesTasks :
    /\ TypesDone(task) /\ task.seen = {"exports.import"}
    /\ Get(pkg, "exports") = JMap(<< KV("node", JMap(<<>>)), KV("import", JStr("./a.js")) >>)

-----------------------------------------------------------------------------
(* The files of a glob.                                                       *)

\* a package with a directory lib of files, one of them beside a directory
\* of its name and beside a source map, and an index.js
GlobTree ==
  << File("/p/package.json", "root", "", JUndef),
     File("/p/index.js", "text", CjsText, JUndef),
     File("/p/lib/x.js", "text", EsmText, JUndef),
     File("/p/lib/x.js.map", "text", "", JUndef),
     File("/p/lib/internal.js", "text", CjsText, JUndef),
     File("/p/lib/x/x.js", "text", CjsText, JUndef),
     File("/p/lib/x/y.js", "text", CjsText, JUndef) >>

\* the same with a file four directories deep
GlobTreeDeep == GlobTree \o <<File("/p/lib/a/a/a/a.js", "text", CjsText, JUndef)>>

\* exports with the wildcard twice in a value
TwoStars == JMap(<<KV("./*", JStr("./lib/*/*.js"))>>)

\* exports of globs: alone, beside keys of null with and without a
\* wildcard, with null below a condition, with a directory that does not
\* exist, beside an entry point; and none
GlobExports ==
  { JMap(<<KV("./lib/*", JStr("./lib/*.js"))>>),
    JMap(<<KV("./lib/*", JStr("./lib/*.js")), KV("./lib/internal", JNull)>>),
    JMap(<<KV("./lib/x/*", JNull), KV("./lib/*", JStr("./lib/*.js"))>>),
    JMap(<<KV("./lib/*", JMap(<<KV("import", JStr("./lib/*.js")), KV("require", JNull)>>))>>),
    JMap(<<KV("./gone/*", JStr("./gone/*.js"))>>),
    JMap(<<KV(".", JStr("./index.js")), KV("./x/*", JStr("./lib/x/*.js"))>>),
    TwoStars,
    JUndef }

\* allow-lists: one of members of the tree, one of a source map without its
\* file
GlobPacked ==
  { NotPacked,
    Packed(<<"/p/package.json", "/p/lib/x.js">>),
    Packed(<<"/p/package.json", "/p/lib/x.js.map", "/p/lib/x/x.js">>) }

InitGlob ==
  /\ InitPass
  /\ \/ /\ vfs = GlobTree
        /\ \E e \in GlobExports : pkg = Manifest(JUndef, JUndef, JUndef, e, JUndef)
        /\ packed \in GlobPacked
     \/ /\ vfs = GlobTreeDeep
        /\ pkg = Manifest(JUndef, JUndef, JUndef, TwoStars, JUndef)
        /\ packed = NotPacked
  /\ level = "suggestion"
  /\ strict = FALSE

NextGlob == CoreSchedule \/ TaskStep \/ FieldStep \/ GlobStep \/ CoreReturn

\* one pass over a package whose files are found by a glob
SpecGlob == InitGlob /\ [][NextGlob]_vars

\* the files of the tree
TreeFiles == {vfs[i].path : i \in DOMAIN vfs}

\* the files a task has got from the glob
FilesOfTask(task) == {task.sub[j].filePath : j \in DOMAIN task.sub}

\* the leaf tasks of exports whose value holds a wildcard and whose files
\* are there
GlobLeaves ==
  {queue[i] : i \in {j \in DOMAIN queue :
     /\ queue[j].kind = "leaf" /\ queue[j].pc \in {"wait", "done"}
     /\ ~queue[j].isImports /\ Includes(queue[j].value, "*")}}

\* a pattern of at most one wildcard: what stands before and after it
StarOf(pattern) == CHOOSE i \in 1..Len(pattern) : Char(pattern, i) = "*"
BeforeStar(pattern) == SubSeq(pattern, 1, StarOf(pattern) - 1)
AfterStar(pattern) == SubSeq(pattern, StarOf(pattern) + 1, Len(pattern))

\* a text is the pattern with a text that is not empty for its wildcard
MatchesOne(pattern, text) ==
  IF ~Includes(pattern, "*") THEN text = pattern
  ELSE /\ StartsWith(text, BeforeStar(pattern)) /\ EndsWith(text, AfterStar(pattern))
       /\ Len(text) > Len(BeforeStar(pattern)) + Len(AfterStar(pattern))

\* the text the wildcard stands for
CaptureOne(pattern, text) ==
  SubSeq(text, Len(BeforeStar(pattern)) + 1, Len(text) - Len(AfterStar(pattern)))

\* the key with its wildcard replaced
KeyFor(key, captured) ==
  IF ~Includes(key, "*") THEN key ELSE BeforeStar(key) \o captured \o AfterStar(key)

\* the keys of exports whose value is null
NullKeys == {Keys(Get(pkg, "exports"))[i] :
               i \in {j \in DOMAIN Keys(Get(pkg, "exports")) :
                        Get(Get(pkg, "exports"), Keys(Get(pkg, "exports"))[j]) = JNull}}

\* the key of the file matches the pattern of a key of null
ExcludedByNull(key, captured) == \E n \in NullKeys : MatchesOne(n, KeyFor(key, captured))

\* the file is a prefix of a path of the allow-list, if there is one
Shipped(file) ==
  ~packed.given \/ \E i \in DOMAIN packed.files : StartsWith(packed.files[i], file)

\* the candidates of a task: the files that match its value and are shipped
CandidatesOf(task) ==
  {f \in TreeFiles : MatchesOne(pathJoin(pkgDir, task.value), f) /\ Shipped(f)}

\* a path has a key of null on it
ThroughNull(path) ==
  \E n \in 1..Len(path) :
    /\ n > 1
    /\ Descend(Get(pkg, "exports"), SubSeq(path, 2, n)) = JNull

\* C24: a candidate file of a glob under the exports key K is dropped if and
\* only if K with its wildcard replaced by what the file captured matches the
\* pattern of a key of exports whose value is null; and a null in the tree
\* yields no task, no file check and no diagnostic.
C24_NullKeysExclude ==
  /\ \A task \in GlobLeaves :
       task.value # "./lib/*/*.js" =>
         \A f \in CandidatesOf(task) :
           f \notin FilesOfTask(task)
             <=> ExcludedByNull(task.path[2],
                                CaptureOne(pathJoin(pkgDir, task.value), f))
  /\ \A i \in DOMAIN queue : queue[i].kind = "leaf" => ~ThroughNull(queue[i].path)
  /\ \A i \in DOMAIN messages :
       Len(messages[i].path) > 0 /\ messages[i].path[1] = "exports" =>
         ~ThroughNull(messages[i].path)

\* the files of the glob are there for exports with a key of null that holds
\* a wildcard: the two files below lib/x were dropped, the others were not
C24_Witness ==
  \E task \in GlobLeaves :
    /\ NullKeys = {"./lib/x/*"} /\ ~packed.given
    /\ FilesOfTask(task) = {"/p/lib/x.js", "/p/lib/internal.js"}
    /\ {"/p/lib/x/x.js", "/p/lib/x/y.js"} \subseteq CandidatesOf(task)

-----------------------------------------------------------------------------
(* A glob with the wildcard twice.                                            *)

\* the leaf tasks of exports whose value holds the wildcard twice and whose
\* files are there
TwoStarLeaves == {task \in GlobLeaves : Len(SplitOn(task.value, "*")) = 3}

\* a pattern of two wildcards: where the second stands, and what stands
\* between the two and after the second
SecondStarOf(pattern) ==
  CHOOSE i \in (StarOf(pattern) + 1)..Len(pattern) :
    /\ Char(pattern, i) = "*"
    /\ \A j \in (StarOf(pattern) + 1)..(i - 1) : Char(pattern, j) # "*"
BetweenStars(pattern) == SubSeq(pattern, StarOf(pattern) + 1, SecondStarOf(pattern) - 1)
AfterStars(pattern) == SubSeq(pattern, SecondStarOf(pattern) + 1, Len(pattern))

\* what of a text the two wildcards and the text between them stand for
InnerOf(pattern, text) ==
  SubSeq(text, Len(BeforeStar(pattern)) + 1, Len(text) - Len(AfterStars(pattern)))

\* the lengths the first wildcard may have: the text between the wildcards
\* follows it, and something is left for the second
CutsOf(between, inner) ==
  {n \in 1..(Len(inner) - Len(between) - 1) : SubSeq(inner, n + 1, n + Len(between)) = between}

\* the text matches the regular expression of the pattern
MatchesTwo(pattern, text) ==
  /\ StartsWith(text, BeforeStar(pattern)) /\ EndsWith(text, AfterStars(pattern))
  /\ Len(text) >= Len(BeforeStar(pattern)) + Len(AfterStars(pattern))
  /\ CutsOf(BetweenStars(pattern), InnerOf(pattern, text)) # {}

\* the two captures when the first wildcard has length n
SameAt(between, inner, n) ==
  SubSeq(inner, 1, n) = SubSeq(inner, n + Len(between) + 1, Len(inner))

\* the captures of the regular expression, whose first group is greedy, are
\* the same
SameCaptures(between, inner, cuts) ==
  SameAt(between, inner, CHOOSE n \in cuts : \A m \in cuts : m <= n)

TwoStarsOf(task, pattern) ==
  /\ \A f \in FilesOfTask(task) :
       /\ MatchesTwo(pattern, f)
       /\ \E n \in CutsOf(BetweenStars(pattern), InnerOf(pattern, f)) :
            SameAt(BetweenStars(pattern), InnerOf(pattern, f), n)
  /\ \A f \in TreeFiles :
       MatchesTwo(pattern, f) =>
         (f \in FilesOfTask(task)
            <=> /\ Shipped(f)
                /\ SameCaptures(BetweenStars(pattern), InnerOf(pattern, f),
                                CutsOf(BetweenStars(pattern), InnerOf(pattern, f))))

\* C25: when the pattern holds the wildcard more than once, a file is among
\* the files of the glob only if every wildcard captured the same text; a
\* file that matches the regular expression of the pattern with captures
\* that differ is not among them.
C25_SameCaptureForEveryWildcard ==
  \A task \in TwoStarLeaves : TwoStarsOf(task, pathJoin(pkgDir, task.value))

\* the files of ./lib/*/*.js are there: lib/x/x.js is among them; lib/x/y.js
\* and lib/a/a/a/a.js match the regular expression and are not
C25_Witness ==
  \E task \in TwoStarLeaves :
    /\ vfs = GlobTreeDeep
    /\ FilesOfTask(task) = {"/p/lib/x/x.js"}
    /\ MatchesTwo(pathJoin(pkgDir, task.value), "/p/lib/x/y.js")
    /\ MatchesTwo(pathJoin(pkgDir, task.value), "/p/lib/a/a/a/a.js")

-----------------------------------------------------------------------------
(* A glob and the allow-list.                                                 *)

\* the tasks of the package without exports whose files are there
RootGlobs ==
  {queue[i] : i \in {j \in DOMAIN queue :
     queue[j].kind = "glob" /\ queue[j].pc \in {"wait", "done"}}}

\* the pattern a task globs by
PatternOf(task) ==
  IF task.kind = "glob" THEN pathJoin(pkgDir, "./*") ELSE pathJoin(pkgDir, task.value)

\* the directory of what stands before the wildcard
LiteralDir(pattern) ==
  LET before == BeforeStar(pattern)
      cuts == {i \in 2..Len(before) : Char(before, i) = "/"}
  IN  SubSeq(before, 1, (CHOOSE i \in cuts : \A j \in cuts : j <= i) - 1)

\* a directory of the tree
DirExists(dir) == \E f \in TreeFiles : StartsWith(f, dir \o "/")

\* a path is the beginning of a path of the allow-list
PrefixOfAllowed(path) == \E i \in DOMAIN packed.files : StartsWith(packed.files[i], path)

\* the directories between the directory of the pattern and a file
DirsBelow(dir, file) ==
  {d \in {DirsAbove(file)[i] : i \in DOMAIN DirsAbove(file)} :
     StartsWith(d, dir \o "/")}

\* a file a task goes on with
Lintable(file) == \E ext \in {".js", ".mjs", ".cjs"} : EndsWith(file, ext)

AllowListOf(task, pattern) ==
  /\ packed.given =>
       \A f \in FilesOfTask(task) :
         /\ PrefixOfAllowed(f)
         /\ \A d \in DirsBelow(LiteralDir(pattern), f) : PrefixOfAllowed(d)
  /\ Len(SplitOn(pattern, "*")) = 2 /\ (task.kind = "glob" \/ NullKeys = {}) =>
       \A f \in TreeFiles :
         MatchesOne(pattern, f) /\ Lintable(f) =>
           (f \in FilesOfTask(task) <=> (~packed.given \/ PrefixOfAllowed(f)))
  /\ ~DirExists(LiteralDir(pattern)) => FilesOfTask(task) = {}

\* C26: with an allow-list, a file is among the files of a glob, and a
\* directory on the way to it was descended into, only if its path is the
\* beginning of a path of the allow-list; without one, every file below the
\* directory of the pattern that matches the pattern is among them; and when
\* the directory of the pattern does not exist there are none.
C26_AllowListByPrefix ==
  \A task \in GlobLeaves \cup RootGlobs : AllowListOf(task, PatternOf(task))

\* the files of ./lib/*.js are there under an allow-list that holds
\* lib/x.js.map and lib/x/x.js: lib/x.js and lib/x/x.js are among them,
\* lib/internal.js and lib/x/y.js are not
C26_Witness ==
  \E task \in GlobLeaves :
    /\ packed.given /\ task.value = "./lib/*.js" /\ NullKeys = {}
    /\ PrefixOfAllowed("/p/lib/x.js.map")
    /\ FilesOfTask(task) = {"/p/lib/x.js", "/p/lib/x/x.js"}

\* the glob of a directory that does not exist has ended without files
C26_WitnessGone ==
  \E task \in GlobLeaves :
    /\ task.value = "./gone/*.js" /\ FilesOfTask(task) = {}
    /\ Emitted("EXPORTS_GLOB_NO_MATCHED_FILES", task.path) = 1

\* the task of a package without exports and without an allow-list has all
\* the files of the package that it lints
C26_WitnessAll ==
  \E task \in RootGlobs :
    /\ ~packed.given
    /\ FilesOfTask(task) = {f \in TreeFiles : Lintable(f)}

\* the paths of the allow-list
AllowList == {packed.files[i] : i \in DOMAIN packed.files}

\* the path a task reports the files it reads at
ReportPathOf(task) == IF task.kind = "glob" THEN <<>> ELSE task.path

\* C27: with an allow-list, every file of a glob is a member of the
\* allow-list, so that no file of a glob is linted that does not ship and
\* none yields FILE_NOT_PUBLISHED.
C27_GlobbedFilesShip ==
  packed.given =>
    \A task \in GlobLeaves \cup RootGlobs :
      /\ FilesOfTask(task) \subseteq AllowList
      /\ Emitted("FILE_NOT_PUBLISHED", ReportPathOf(task)) = 0

\* the pass has returned for ./lib/*.js under an allow-list that holds
\* lib/x.js.map and not lib/x.js: the file was linted and reported as not
\* published
C27_NotShippedYetLinted ==
  \E task \in GlobLeaves :
    /\ corePc = "returned" /\ packed.given
    /\ "/p/lib/x.js" \in FilesOfTask(task) /\ "/p/lib/x.js" \notin AllowList
    /\ Emitted("FILE_NOT_PUBLISHED", task.path) = 1
    /\ Emitted("FILE_INVALID_FORMAT", task.path) = 1

-----------------------------------------------------------------------------
(* The keys after `node`.                                                     *)

NodeKeyNames == {"node", "import", "default"}

\* what a key of the outer map holds: a file of ESM content, or a map of
\* two keys of such files, with `node` first or last
NodeInner ==
  { JStr("./e.js"),
    JMap(<<KV("node", JStr("./e.js")), KV("import", JStr("./e.js"))>>),
    JMap(<<KV("import", JStr("./e.js")), KV("node", JStr("./e.js"))>>) }

\* maps with an array and with three levels below a key after `node`, and
\* beside a map that holds `node`
NodeDeep ==
  { JMap(<< KV("node", JStr("./a.js")),
            KV("default", JArr(<<JStr("./e.js"), JMap(<<KV("import", JStr("./e.js"))>>)>>)) >>),
    JMap(<< KV("import", JArr(<<JMap(<< KV("node", JStr("./e.js")),
                                        KV("default", JStr("./e.js")) >>)>>)),
            KV("default", JStr("./e.js")) >>) }

InitNode ==
  /\ InitPass
  /\ vfs = Tree
  /\ \/ \E k1 \in NodeKeyNames, k2 \in NodeKeyNames, v1 \in NodeInner, v2 \in NodeInner :
          /\ k1 # k2
          /\ pkg = Manifest(JUndef, JUndef, JUndef, JMap(<<KV(k1, v1), KV(k2, v2)>>), JUndef)
     \/ \E e \in NodeDeep : pkg = Manifest(JUndef, JUndef, JUndef, e, JUndef)
  /\ packed = NotPacked
  /\ level = "suggestion"
  /\ strict = FALSE

\* one pass over a package whose exports hold `node` keys
SpecNode == InitNode /\ [][NextFiles]_vars

\* the leaf tasks of exports
ExportsLeaves ==
  {queue[i] : i \in {j \in DOMAIN queue : queue[j].kind = "leaf" /\ ~queue[j].isImports}}

\* the n-th key of the path is declared after `node` in the map that holds it
DeclaredAfterNode(map, key) ==
  /\ map.t = "map" /\ HasKey(map, "node")
  /\ Position(map, "node") < Position(map, key)

\* some key of the path is declared after `node` in its map
AfterNodeOnPath(path) ==
  \E n \in 2..Len(path) :
    DeclaredAfterNode(Descend(Get(pkg, "exports"), SubSeq(path, 2, n - 1)), path[n])

\* the file of the leaf was checked and found in another format than its path
FormatFlagged(task) == Emitted("FILE_INVALID_FORMAT", task.path) = 1

\* C28: the flag of a leaf is true exactly when a key of its path is declared
\* after `node` in the map that holds it, at the leaf or above; the files
\* under `node` itself, under the keys before it, and under the keys of a map
\* above, beside the map that holds `node`, are checked for their format:
\* by the end of the pass a leaf of ESM content in a CommonJS package has its
\* format diagnostic exactly when no key of its path is declared after
\* `node`.
C28_AfterNodeWithinOneMap ==
  /\ \A task \in ExportsLeaves : task.after <=> AfterNodeOnPath(task.path)
  /\ corePc = "returned" =>
       \A task \in ExportsLeaves :
         task.value = "./e.js" => (FormatFlagged(task) <=> ~AfterNodeOnPath(task.path))

\* the pass has returned for a map whose first key holds `node` before
\* `import`: the file under `node` was flagged, the one under the inner
\* `import` was not, and the one under the outer key beside them was
C28_Witness ==
  /\ corePc = "returned"
  /\ Get(pkg, "exports")
       = JMap(<< KV("import", JMap(<<KV("node", JStr("./e.js")), KV("import", JStr("./e.js"))>>)),
                 KV("default", JStr("./e.js")) >>)
  /\ Emitted("FILE_INVALID_FORMAT", <<"exports", "import", "node">>) = 1
  /\ Emitted("FILE_INVALID_FORMAT", <<"exports", "import", "import">>) = 0
  /\ Emitted("FILE_INVALID_FORMAT", <<"exports", "default">>) = 1

-----------------------------------------------------------------------------
(* The same package under two roots.                                          *)

\* the directories a package is placed in; none has a manifest above it
RootDirs == {"/p", "/q/p", "/browser/p", "/bundler"}

\* the files of a tree placed under one root, placed under another
Placed(tree, from, to) ==
  [i \in DOMAIN tree |->
     [tree[i] EXCEPT !.path = to \o SubSeq(tree[i].path, Len(from) + 1, Len(tree[i].path))]]

\* exports of one file, of a map of files, of a glob, or none
RootExports ==
  { JUndef, JStr("./e.js"), JStr("./a.js"), JStr("./lib/*.js"),
    JMap(<<KV("import", JStr("./e.js")), KV("default", JStr("./a.js"))>>) }

InitRoots ==
  /\ InitRun
  /\ root \in RootDirs
  /\ vfs = Placed(Tree, "/p", root)
  /\ \E type \in {JUndef, JStr("module")}, exports \in RootExports :
       pkg = Manifest(type, JUndef, JUndef, exports, JUndef)
  /\ packed = NotPacked
  /\ level = "suggestion"
  /\ strict = FALSE

\* the caller keeps the outcome, places the same manifest and the same files
\* under another root and calls core() with that root as pkgDir
Relocate ==
  /\ corePc = "returned"
  /\ Quiescent(queue)
  /\ run < MaxRuns
  /\ \E to \in RootDirs \ {root} :
       /\ root' = to
       /\ vfs' = Placed(vfs, root, to)
  /\ run' = run + 1
  /\ firstResult' = returned
  /\ corePc' = "start"
  /\ messages' = <<>>
  /\ emitted' = <<>>
  /\ queue' = <<>>
  /\ returned' = NoResult
  /\ UNCHANGED <<pkg, level, strict, packed>>

NextRoots == CoreSchedule \/ TaskStep \/ GlobStep \/ CoreReturn \/ Relocate

\* a pass over a package, and a second one over the same package elsewhere
SpecRoots == InitRoots /\ [][NextRoots]_vars

\* the second pass has returned
BothReturned == run = 2 /\ corePc = "returned" /\ firstResult.kind = "result"

\* the path of the root holds one of the words that excuse a file of ESM
KeywordRoot == Includes(root, "browser") \/ Includes(root, "bundler")

\* how often a result holds a diagnostic of the code
CodeCount(result, code) ==
  Cardinality({i \in DOMAIN result.messages : result.messages[i].code = code})

\* C30: the pass over the same manifest and the same files under another
\* root returns the messages of the first pass, each as often: no message
\* depends on where the package is placed.
C30_SameDiagnosticsAnywhere ==
  BothReturned => SameMessages(returned.messages, firstResult.messages)

\* the file that was reported as ESM in a CommonJS package is not reported
\* once the package is under a root with `browser` or `bundler` in its path
C30_DiagnosticLost ==
  /\ BothReturned
  /\ KeywordRoot
  /\ CodeCount(firstResult, "FILE_INVALID_FORMAT") >= 1
  /\ CodeCount(returned, "FILE_INVALID_FORMAT") = 0

\* under a root without those words the second pass returns every message
\* of the first, wherever the first was
C30_NothingLostAwayFromKeywords ==
  BothReturned /\ ~KeywordRoot =>
    \A i \in DOMAIN firstResult.messages :
      \E j \in DOMAIN returned.messages : returned.messages[j] = firstResult.messages[i]

\* the second pass, under a root without those words, has returned the
\* messages of the first, a format diagnostic among them
C30_SameAwayFromKeywords ==
  /\ BothReturned
  /\ ~KeywordRoot
  /\ CodeCount(firstResult, "FILE_INVALID_FORMAT") >= 1
  /\ SameMessages(returned.messages, firstResult.messages)

====
